---------------------------- MODULE Spec2Model ----------------------------
(***************************************************************************)
(* Verification & anomaly engine of Degree-Defender-Backend                *)
(* (src/src/services/verificationService.js, blockchainService.js).        *)
(*                                                                         *)
(* Representation                                                          *)
(*   - a JS string is a sequence of one-character strings; "" is <<>>      *)
(*   - an optional number / digest is <<>> (null, undefined) or <<v>>      *)
(*   - cgpa is kept in tenths (82 = 8.2); percentage, ocrConfidence and    *)
(*     dates (day numbers) are integers                                    *)
(*   - a rational is a pair <<numerator, denominator>>                     *)
(*   - a SHA-256 digest is the tuple of the fields it is computed over     *)
(*     (collision-free ideal hash)                                         *)
(***************************************************************************)
EXTENDS Integers, Sequences, FiniteSets, TLC

\* ------------------------------------------------------------------------
\* Program constants
\* ------------------------------------------------------------------------

\* this.anomalyThresholds (constructor)
lowConfidence == 60
mediumConfidence == 75
highConfidence == 90

\* calculateConfidenceScore: weights, in tenths (0.4, 0.2, 0.2, 0.1, 0.1).
\* In IEEE doubles 0.4+0.2+0.2+0.1+0.1 (added in this order) is exactly 1.0 and
\* Math.round(totalScore / totalWeight) equals the exact half-up rounding for
\* every combination of confidences the five checks can produce, so the
\* arithmetic is carried out exactly in tenths.
WeightDatabaseMatch == 4
WeightBlockchainValidation == 2
WeightAnomalyDetection == 2
WeightInstitutionValidation == 1
WeightDuplicateCheck == 1

\* checkDatabaseMatch: pass mark of the match score
MatchPassScore == 80

\* checkBlockchainValidation / validateInstitution / checkForDuplicates
LegacyConfidence == 60
FullConfidence == 100
InactiveInstitutionConfidence == 20
DuplicateErrorConfidence == 50

\* detectAnomalies: deductions
DeductLowOcr == 20
DeductGrade == 30
DeductCertNumber == 25
DeductPattern == 15
DeductDate == 20

\* detectGradeTampering (cgpa in tenths; cgpa * 9.5 is cgpa10 * 95 / 100)
MaxCgpa10 == 100
MaxPercentage == 100
CgpaToPercent100 == 95
MaxGradeDifference == 20

\* compareDetails: field weights
WName == 25
WCertNumber == 20
WCourse == 15
WPassingYear == 10
WRollNumber == 10
WGrade == 5
WCgpa == 5
WPercentage == 5
WDateOfIssue == 5
\* compareDetails: date score 0.8 (in tenths) within a week, 1 within a day
DateNearScore10 == 8
DateExactDays == 1
DateNearDays == 7

\* ------------------------------------------------------------------------
\* JS values
\* ------------------------------------------------------------------------

None == <<>>
Some(v) == <<v>>

\* JS truthiness of a string (non-empty) and of an optional number
TruthyStr(s) == Len(s) > 0
TruthyNum(n) == n # None /\ n[1] # 0

Abs(x) == IF x < 0 THEN -x ELSE x
Max2(a, b) == IF a >= b THEN a ELSE b
Min2(a, b) == IF a <= b THEN a ELSE b

\* String.prototype.toLowerCase over the model's alphabet
LowerChar(c) ==
  CASE c = "A" -> "a"
    [] c = "B" -> "b"
    [] c = "C" -> "c"
    [] c = "D" -> "d"
    [] c = "E" -> "e"
    [] c = "F" -> "f"
    [] c = "G" -> "g"
    [] c = "H" -> "h"
    [] c = "I" -> "i"
    [] c = "J" -> "j"
    [] c = "K" -> "k"
    [] c = "L" -> "l"
    [] c = "M" -> "m"
    [] c = "N" -> "n"
    [] c = "O" -> "o"
    [] c = "P" -> "p"
    [] c = "Q" -> "q"
    [] c = "R" -> "r"
    [] c = "S" -> "s"
    [] c = "T" -> "t"
    [] c = "U" -> "u"
    [] c = "V" -> "v"
    [] c = "W" -> "w"
    [] c = "X" -> "x"
    [] c = "Y" -> "y"
    [] c = "Z" -> "z"
    [] OTHER -> c

toLowerCase(s) == [i \in 1..Len(s) |-> LowerChar(s[i])]

Digits == {"0", "1", "2", "3", "4", "5", "6", "7", "8", "9"}

\* parseInt of one digit character
parseInt(c) ==
  CASE c = "0" -> 0 [] c = "1" -> 1 [] c = "2" -> 2 [] c = "3" -> 3
    [] c = "4" -> 4 [] c = "5" -> 5 [] c = "6" -> 6 [] c = "7" -> 7
    [] c = "8" -> 8 [] c = "9" -> 9

\* str.replace(/\D/g, ''): the digits of str, in order
RECURSIVE DigitsOf(_)
DigitsOf(s) ==
  IF s = <<>> THEN <<>>
  ELSE IF Head(s) \in Digits THEN <<Head(s)>> \o DigitsOf(Tail(s))
  ELSE DigitsOf(Tail(s))

\* Prisma { contains: needle, mode: 'insensitive' }
ContainsInsensitive(hay, needle) ==
  LET h == toLowerCase(hay)
      n == toLowerCase(needle)
  IN \E k \in 0..(Len(h) - Len(n)) :
        \A i \in 1..Len(n) : h[k + i] = n[i]


\* ------------------------------------------------------------------------
\* String similarity (Levenshtein) and field comparison
\* ------------------------------------------------------------------------

\* One more cell of row j, from its three neighbours: left is row j up to
\* column i - 1, above is row j - 1 (a row is the sequence of its cells,
\* column 0 first)
NextCell(left, above, i, cost) ==
  Append(left, Min2(Min2(left[i] + 1, above[i + 1] + 1), above[i] + cost))

\* The inner loop: row j filled from left to right; sameCost is the cost of
\* the diagonal step over equal characters
RECURSIVE FillRow(_, _, _, _, _, _)
FillRow(str1, str2, above, j, left, sameCost) ==
  IF Len(left) > Len(str1) THEN left
  ELSE FillRow(str1, str2, above, j,
               NextCell(left, above, Len(left),
                        IF str1[Len(left)] = str2[j] THEN sameCost ELSE 1),
               sameCost)

\* The outer loop: rows 1 .. str2.length, below row 0 = 0, 1, .., str1.length
RECURSIVE FillRows(_, _, _, _)
FillRows(str1, str2, rows, sameCost) ==
  IF Len(rows) > Len(str2) THEN rows
  ELSE FillRows(str1, str2,
                Append(rows, FillRow(str1, str2, rows[Len(rows)], Len(rows),
                                     <<Len(rows)>>, sameCost)),
                sameCost)

MatrixRows(str1, str2, sameCost) ==
  FillRows(str1, str2, <<[i \in 1..(Len(str1) + 1) |-> i - 1]>>, sameCost)

\* Mutant of levenshteinMatrix: the diagonal step always costs 1, equal
\* characters included
levenshteinMatrixUnitDiagonal(str1, str2) ==
  [j \in 0..Len(str2), i \in 0..Len(str1) |-> MatrixRows(str1, str2, 1)[j + 1][i + 1]]

\* The matrix filled by calculateStringSimilarity: matrix[j][i] is the edit
\* distance between the first i characters of str1 and the first j of str2.
levenshteinMatrix(str1, str2) ==
  [j \in 0..Len(str2), i \in 0..Len(str1) |-> MatrixRows(str1, str2, 0)[j + 1][i + 1]]

\* Mutant of calculateStringSimilarity: the distance is divided by the length
\* of the first string
calculateStringSimilarityByFirst(str1, str2) ==
  LET maxLength == Len(str1)
      distance == levenshteinMatrix(str1, str2)[Len(str2), Len(str1)]
  IN IF maxLength = 0 THEN <<1, 1>> ELSE <<maxLength - distance, maxLength>>

\* (maxLength - distance) / maxLength as a rational, 1 for two empty strings
calculateStringSimilarity(str1, str2) ==
  LET maxLength == Max2(Len(str1), Len(str2))
      distance == levenshteinMatrix(str1, str2)[Len(str2), Len(str1)]
  IN IF maxLength = 0 THEN <<1, 1>> ELSE <<maxLength - distance, maxLength>>

RatAdd(a, b) == <<a[1] * b[2] + b[1] * a[2], a[2] * b[2]>>
RatScale(a, k) == <<a[1] * k, a[2]>>

\* The integers k for which the double ((k + 0.5) / 100) * 100 is below
\* k + 0.5, so that Math.round gives k where exact arithmetic gives k + 1.
HalfLoss == {3, 14, 27, 28, 54, 55, 56, 57}

\* Math.round((score / totalChecks) * 100) with totalChecks = 100
RoundScore(score, totalChecks) ==
  LET n == score[1] * FullConfidence
      d == score[2] * totalChecks
      fl == n \div d
  IN IF 2 * n = (2 * fl + 1) * d
     THEN (IF fl \in HalfLoss THEN fl ELSE fl + 1)
     ELSE (2 * n + d) \div (2 * d)

\* The sum of all nine field weights: totalChecks grows on every iteration,
\* whether or not the field is present.
TotalChecks ==
  WName + WCertNumber + WCourse + WPassingYear + WRollNumber
    + WGrade + WCgpa + WPercentage + WDateOfIssue

\* Score contributed by a fuzzy-matched string field
FuzzyFieldScore(a, b, weight) ==
  IF TruthyStr(a) /\ TruthyStr(b)
  THEN RatScale(calculateStringSimilarity(toLowerCase(a), toLowerCase(b)), weight)
  ELSE <<0, 1>>

\* Score contributed by an exactly-matched string field
ExactStrFieldScore(a, b, weight) ==
  IF TruthyStr(a) /\ TruthyStr(b) /\ a = b THEN <<weight, 1>> ELSE <<0, 1>>

\* Score contributed by an exactly-matched numeric field
ExactNumFieldScore(a, b, weight) ==
  IF TruthyNum(a) /\ TruthyNum(b) /\ a = b THEN <<weight, 1>> ELSE <<0, 1>>

\* Score contributed by dateOfIssue (dates are day numbers)
DateFieldScore(d1, d2, weight) ==
  LET daysDiff == Abs(d1 - d2)
  IN IF daysDiff <= DateExactDays THEN <<weight, 1>>
     ELSE IF daysDiff <= DateNearDays THEN <<DateNearScore10 * weight, 10>>
     ELSE <<0, 1>>

\* score after the loop over the nine fields
DetailsScore(cert1, cert2) ==
  RatAdd(FuzzyFieldScore(cert1.studentName, cert2.studentName, WName),
  RatAdd(ExactStrFieldScore(cert1.certificateNumber, cert2.certificateNumber, WCertNumber),
  RatAdd(FuzzyFieldScore(cert1.course, cert2.course, WCourse),
  RatAdd(ExactNumFieldScore(cert1.passingYear, cert2.passingYear, WPassingYear),
  RatAdd(ExactStrFieldScore(cert1.rollNumber, cert2.rollNumber, WRollNumber),
  RatAdd(ExactStrFieldScore(cert1.grade, cert2.grade, WGrade),
  RatAdd(ExactNumFieldScore(cert1.cgpa, cert2.cgpa, WCgpa),
  RatAdd(ExactNumFieldScore(cert1.percentage, cert2.percentage, WPercentage),
         DateFieldScore(cert1.dateOfIssue, cert2.dateOfIssue, WDateOfIssue)))))))))

compareDetails(cert1, cert2) ==
  RoundScore(DetailsScore(cert1, cert2), TotalChecks)

\* ------------------------------------------------------------------------
\* Ledger digest
\* ------------------------------------------------------------------------

\* Mutant of generateCertificateHash: institutionId is left out of the digest
generateCertificateHashNoInstitution(certificateData) ==
  <<certificateData.studentName, certificateData.certificateNumber,
    certificateData.course, certificateData.passingYear,
    "", certificateData.dateOfIssue>>

\* sha256(JSON.stringify({studentName, certificateNumber, course, passingYear,
\* institutionId, dateOfIssue}))
generateCertificateHash(certificateData) ==
  <<certificateData.studentName, certificateData.certificateNumber,
    certificateData.course, certificateData.passingYear,
    certificateData.institutionId, certificateData.dateOfIssue>>

\* ------------------------------------------------------------------------
\* Anomaly rules of the verification service
\* ------------------------------------------------------------------------

\* new Date() at the time of the call, as a day number
Today == 100

Finding(type, severity, confidence) ==
  [type |-> type, severity |-> severity, confidence |-> confidence]

\* A finding, or None for null
detectGradeTampering(certificate) ==
  IF TruthyNum(certificate.cgpa) /\ certificate.cgpa[1] > MaxCgpa10
  THEN Some(Finding("INVALID_CGPA", "HIGH", 95))
  ELSE IF TruthyNum(certificate.percentage) /\ certificate.percentage[1] > MaxPercentage
  THEN Some(Finding("INVALID_PERCENTAGE", "HIGH", 95))
  ELSE IF /\ TruthyNum(certificate.cgpa)
          /\ TruthyNum(certificate.percentage)
          /\ Abs(100 * certificate.percentage[1] - CgpaToPercent100 * certificate.cgpa[1])
               > 100 * MaxGradeDifference
  THEN Some(Finding("GRADE_PERCENTAGE_MISMATCH", "MEDIUM", 80))
  ELSE None

\* Mutant of isSequential: two consecutive digits are enough
isSequentialPairs(str) ==
  LET numbers == DigitsOf(str)
  IN /\ Len(numbers) >= 3
     /\ \E i \in 1..(Len(numbers) - 1) :
          LET a == parseInt(numbers[i])
              b == parseInt(numbers[i + 1])
          IN b = a + 1 \/ b = a - 1

\* Three consecutive digits of str that ascend or descend by one
isSequential(str) ==
  LET numbers == DigitsOf(str)
  IN /\ Len(numbers) >= 3
     /\ \E i \in 1..(Len(numbers) - 2) :
          LET a == parseInt(numbers[i])
              b == parseInt(numbers[i + 1])
              c == parseInt(numbers[i + 2])
          IN \/ (b = a + 1 /\ c = b + 1)
             \/ (b = a - 1 /\ c = b - 1)

\* /^(.)\1+$/ : one character repeated, at least twice
AllSameCharacter(str) ==
  /\ Len(str) >= 2
  /\ \A i \in 1..Len(str) : str[i] = str[1]

validateCertificateNumber(certificate) ==
  IF ~TruthyStr(certificate.certificateNumber)
  THEN Some(Finding("MISSING_CERTIFICATE_NUMBER", "HIGH", 90))
  ELSE IF AllSameCharacter(certificate.certificateNumber)
  THEN Some(Finding("SUSPICIOUS_CERTIFICATE_NUMBER", "HIGH", 85))
  ELSE IF isSequential(certificate.certificateNumber)
  THEN Some(Finding("SEQUENTIAL_CERTIFICATE_NUMBER", "MEDIUM", 70))
  ELSE None

\* /[0-9@#$%^&*()_+=\[\]{}|\\:";'<>?,./]/ over the model's alphabet
SuspiciousCharacters == Digits \cup {"@", "#", "$", "%", ".", "/", "_"}

detectSuspiciousPatterns(certificate) ==
  LET missing == \/ ~TruthyStr(certificate.studentName)
                 \/ ~TruthyStr(certificate.course)
                 \/ ~TruthyNum(certificate.passingYear)
      suspicious == /\ TruthyStr(certificate.studentName)
                    /\ \E i \in 1..Len(certificate.studentName) :
                         certificate.studentName[i] \in SuspiciousCharacters
  IN (IF missing THEN <<Finding("MISSING_CRITICAL_FIELDS", "HIGH", 90)>> ELSE <<>>)
     \o (IF suspicious THEN <<Finding("SUSPICIOUS_CHARACTERS_IN_NAME", "MEDIUM", 75)>>
         ELSE <<>>)

validateDates(certificate) ==
  IF certificate.dateOfIssue > Today
  THEN Some(Finding("FUTURE_ISSUE_DATE", "HIGH", 95))
  ELSE IF /\ certificate.dateOfCompletion # None
          /\ certificate.dateOfCompletion[1] > certificate.dateOfIssue
  THEN Some(Finding("COMPLETION_AFTER_ISSUE", "MEDIUM", 80))
  ELSE None

\* The list of findings detectAnomalies collects, in the order it pushes them
LowOcr(certificate) ==
  IF certificate.ocrConfidence # None /\ certificate.ocrConfidence[1] < lowConfidence
  THEN Some(Finding("LOW_OCR_CONFIDENCE", "MEDIUM", 70))
  ELSE None

AnomalyList(certificate) ==
  LowOcr(certificate)
    \o detectGradeTampering(certificate)
    \o validateCertificateNumber(certificate)
    \o detectSuspiciousPatterns(certificate)
    \o validateDates(certificate)

\* What detectAnomalies takes off overallConfidence when it pushes a finding
\* of this type
DeductionOf(type) ==
  CASE type = "LOW_OCR_CONFIDENCE" -> DeductLowOcr
    [] type \in {"INVALID_CGPA", "INVALID_PERCENTAGE", "GRADE_PERCENTAGE_MISMATCH"} ->
         DeductGrade
    [] type \in {"MISSING_CERTIFICATE_NUMBER", "SUSPICIOUS_CERTIFICATE_NUMBER",
                 "SEQUENTIAL_CERTIFICATE_NUMBER"} -> DeductCertNumber
    [] type \in {"MISSING_CRITICAL_FIELDS", "SUSPICIOUS_CHARACTERS_IN_NAME"} ->
         DeductPattern
    [] type \in {"FUTURE_ISSUE_DATE", "COMPLETION_AFTER_ISSUE"} -> DeductDate

\* Mutant of AnomalyConfidence: nothing is taken off for a date finding
AnomalyConfidenceNoDate(certificate) ==
  FullConfidence
    - (IF LowOcr(certificate) # None THEN DeductLowOcr ELSE 0)
    - (IF detectGradeTampering(certificate) # None THEN DeductGrade ELSE 0)
    - (IF validateCertificateNumber(certificate) # None THEN DeductCertNumber ELSE 0)
    - Len(detectSuspiciousPatterns(certificate)) * DeductPattern

\* overallConfidence after all deductions (before Math.max(0, .))
AnomalyConfidence(certificate) ==
  FullConfidence
    - (IF LowOcr(certificate) # None THEN DeductLowOcr ELSE 0)
    - (IF detectGradeTampering(certificate) # None THEN DeductGrade ELSE 0)
    - (IF validateCertificateNumber(certificate) # None THEN DeductCertNumber ELSE 0)
    - Len(detectSuspiciousPatterns(certificate)) * DeductPattern
    - (IF validateDates(certificate) # None THEN DeductDate ELSE 0)

\* ------------------------------------------------------------------------
\* Repository and ledger contents
\* ------------------------------------------------------------------------

Certificate(id, number, name, course, year, roll, grade, cgpa, pct, issued, completed, inst, legacy, hash, ocr) ==
  [id |-> id, certificateNumber |-> number, studentName |-> name,
   course |-> course, passingYear |-> year, rollNumber |-> roll,
   grade |-> grade, cgpa |-> cgpa, percentage |-> pct,
   dateOfIssue |-> issued, dateOfCompletion |-> completed,
   institutionId |-> inst, isLegacy |-> legacy, blockchainHash |-> hash,
   ocrConfidence |-> ocr]

\* Rows of the certificates table.  Row2 repeats Row1's student, roll number,
\* course and year under another certificate number; Row3 is a legacy record
\* of an institution that is not active.
Row1Fields ==
  Certificate("c1", <<"R", "U", "7">>, <<"A", "b">>, <<"c", "s">>, Some(2023),
              <<"r", "1">>, <<"A">>, Some(82), Some(80), Today - 10, Some(Today - 12),
              "i1", FALSE, None, Some(95))
Row1 == [Row1Fields EXCEPT !.blockchainHash = Some(generateCertificateHash(Row1Fields))]
Row2 ==
  Certificate("c2", <<"R", "U", "8">>, <<"A", "b">>, <<"c", "s">>, Some(2023),
              <<"r", "1">>, <<"B">>, Some(70), Some(66), Today - 13, None,
              "i1", TRUE, None, Some(50))
Row3 ==
  Certificate("c3", <<"R", "U", "9">>, <<"a", "c">>, <<"c", "e">>, Some(2020),
              <<"r", "3">>, <<"A">>, None, Some(75), Today - 30, None,
              "i2", TRUE, None, Some(95))

\* A record that no other row resembles: certificate number "RU/2023/BSC/001",
\* student "Rahul Kumar Singh", course "B.Sc CS", no roll number and no grade
Row4Fields ==
  Certificate("c4",
              <<"R", "U", "/", "2", "0", "2", "3", "/", "B", "S", "C", "/", "0", "0", "1">>,
              <<"R", "a", "h", "u", "l", " ", "K", "u", "m", "a", "r", " ", "S", "i", "n", "g", "h">>,
              <<"B", ".", "S", "c", " ", "C", "S">>, Some(2023),
              <<>>, <<>>, Some(82), Some(80), Today - 20, None,
              "i1", FALSE, None, Some(95))
Row4 == [Row4Fields EXCEPT !.blockchainHash = Some(generateCertificateHash(Row4Fields))]

StoredCertificates == {Row1, Row2, Row3, Row4}

\* Rows of the institutions table: "i3" has no row
Institutions ==
  [i \in {"i1", "i2"} |->
     IF i = "i1" THEN [id |-> "i1", isActive |-> TRUE, isVerified |-> TRUE]
     ELSE [id |-> "i2", isActive |-> FALSE, isVerified |-> TRUE]]

\* Digests stored in the registry contract
LedgerHashes == {generateCertificateHash(Row1Fields), generateCertificateHash(Row4Fields)}

\* The certificateData a caller may pass: a stored row, possibly with fields
\* that differ from it (a candidate rebuilt from a scan, a row edited after
\* its digest was stored).
Candidates ==
  { [base EXCEPT !.certificateNumber = number, !.studentName = name,
                 !.cgpa = cgpa, !.dateOfIssue = issued,
                 !.institutionId = inst, !.isLegacy = legacy,
                 !.blockchainHash = hash] :
      base \in {Row1, Row2},
      number \in {<<"R", "U", "7">>, <<"1", "2", "3">>},
      name \in {<<"A", "b">>, <<"a", "b">>, <<"a", "1">>, <<>>},
      cgpa \in {Some(82), Some(120)},
      issued \in {Today - 10, Today + 1},
      inst \in {"i1", "i2", "i3"},
      legacy \in BOOLEAN,
      hash \in {None, Some(generateCertificateHash(Row1Fields)),
                Some(generateCertificateHash(Row3))} }
  \cup {Row4, [Row1 EXCEPT !.certificateNumber = <<>>, !.studentName = <<>>]}

\* ------------------------------------------------------------------------
\* Check results
\* ------------------------------------------------------------------------

\* A message is <<text, n>>: n is the number a template puts before the text
\* (0 when the message has none).
Check(passed, confidence, text, n, details) ==
  [passed |-> passed, confidence |-> confidence, message |-> <<text, n>>,
   details |-> details]

\* Object.entries(checks): the keys of the checks object, in insertion order
CheckNames ==
  <<"databaseMatch", "blockchainValidation", "anomalyDetection",
    "institutionValidation", "duplicateCheck">>

NotRun == Check(FALSE, 0, "(not run)", 0, None)

\* checkDatabaseMatch --------------------------------------------------------

\* The rows the findFirst query of checkDatabaseMatch selects from
DatabaseMatchRows(certificate) ==
  { row \in StoredCertificates :
      \/ row.certificateNumber = certificate.certificateNumber
      \/ /\ ContainsInsensitive(row.studentName, certificate.studentName)
         /\ row.rollNumber = certificate.rollNumber
         /\ row.institutionId = certificate.institutionId }

DatabaseMatchNotFound ==
  Check(FALSE, 0, "Certificate not found in database", 0, None)

DatabaseMatchFound(certificate, dbCertificate) ==
  LET matchScore == compareDetails(certificate, dbCertificate)
  IN Check(matchScore >= MatchPassScore, matchScore,
           IF matchScore >= MatchPassScore THEN "Certificate found and verified"
           ELSE "Certificate details mismatch",
           0, Some(dbCertificate.id))

DatabaseMatchError == Check(FALSE, 0, "Database check failed", 0, None)

\* checkBlockchainValidation ---------------------------------------------------

\* What blockchainService.validateCertificate returns
LedgerResult(configured, isValid, error, hash) ==
  [configured |-> configured, isValid |-> isValid, error |-> error,
   blockchainHash |-> hash]

\* validateCertificate without a contract returns false
LedgerNotConfigured == LedgerResult(FALSE, FALSE, FALSE, None)
\* the contract call threw: { isValid: false, error }
LedgerCallFailed == LedgerResult(TRUE, FALSE, TRUE, None)
\* the contract answered: exists or not
LedgerAnswer(certificateHash) ==
  IF certificateHash \in LedgerHashes
  THEN LedgerResult(TRUE, TRUE, FALSE, Some(certificateHash))
  ELSE LedgerResult(TRUE, FALSE, FALSE, None)

\* Mutant of BlockchainWithoutHash: the legacy exemption applies to every
\* certificate without a digest
BlockchainWithoutHashLenient(certificate) ==
  Check(TRUE, LegacyConfidence,
        "Legacy certificate - blockchain hash generated for verification", 0,
        Some([generatedHash |-> generateCertificateHash(certificate),
              isLegacy |-> TRUE]))

\* The branch of checkBlockchainValidation that does not reach the ledger
BlockchainWithoutHash(certificate) ==
  IF certificate.isLegacy
  THEN Check(TRUE, LegacyConfidence,
             "Legacy certificate - blockchain hash generated for verification", 0,
             Some([generatedHash |-> generateCertificateHash(certificate),
                   isLegacy |-> TRUE]))
  ELSE Check(FALSE, 0, "Missing blockchain hash for non-legacy certificate", 0, None)

\* The branch after validateCertificate returned blockchainResult
BlockchainWithResult(blockchainResult) ==
  IF blockchainResult.isValid
  THEN Check(TRUE, FullConfidence, "Blockchain validation successful", 0,
             Some(blockchainResult))
  ELSE Check(FALSE, 0, "Blockchain validation failed - certificate may be tampered",
             0, Some(blockchainResult))

\* detectAnomalies ---------------------------------------------------------------

\* Mutant of AnomalyResult: the confidence is not clamped at 0
AnomalyResultUnclamped(certificate) ==
  LET anomalies == AnomalyList(certificate)
  IN Check(Len(anomalies) = 0, AnomalyConfidence(certificate),
           IF Len(anomalies) = 0 THEN "No anomalies detected" ELSE "anomalies detected",
           Len(anomalies), anomalies)

AnomalyResult(certificate) ==
  LET anomalies == AnomalyList(certificate)
  IN Check(Len(anomalies) = 0, Max2(0, AnomalyConfidence(certificate)),
           IF Len(anomalies) = 0 THEN "No anomalies detected" ELSE "anomalies detected",
           Len(anomalies), anomalies)

\* validateInstitution -----------------------------------------------------------

InstitutionResult(certificate) ==
  IF certificate.institutionId \notin DOMAIN Institutions
  THEN Check(FALSE, 0, "Institution not found", 0, None)
  ELSE LET institution == Institutions[certificate.institutionId]
       IN IF ~institution.isActive \/ ~institution.isVerified
          THEN Check(FALSE, InactiveInstitutionConfidence,
                     "Institution is not active or verified", 0, Some(institution.id))
          ELSE Check(TRUE, FullConfidence, "Institution is valid and verified", 0,
                     Some(institution.id))

InstitutionError == Check(FALSE, 0, "Institution validation failed", 0, None)

\* checkForDuplicates -------------------------------------------------------------

DuplicateRows(certificate) ==
  { row \in StoredCertificates :
      /\ row.id # certificate.id
      /\ \/ row.certificateNumber = certificate.certificateNumber
         \/ /\ row.studentName = certificate.studentName
            /\ row.rollNumber = certificate.rollNumber
            /\ row.course = certificate.course
            /\ row.passingYear = certificate.passingYear }

DuplicateResult(certificate) ==
  LET duplicates == DuplicateRows(certificate)
      n == Cardinality(duplicates)
  IN Check(n = 0, IF n = 0 THEN FullConfidence ELSE 0,
           IF n = 0 THEN "No duplicates found" ELSE "potential duplicates found",
           n, { row.id : row \in duplicates })

DuplicateError == Check(TRUE, DuplicateErrorConfidence, "Duplicate check failed", 0, {})

\* Aggregation ---------------------------------------------------------------------

\* weights[checkName], in tenths
Weight(checkName) ==
  CASE checkName = "databaseMatch" -> WeightDatabaseMatch
    [] checkName = "blockchainValidation" -> WeightBlockchainValidation
    [] checkName = "anomalyDetection" -> WeightAnomalyDetection
    [] checkName = "institutionValidation" -> WeightInstitutionValidation
    [] checkName = "duplicateCheck" -> WeightDuplicateCheck
    [] OTHER -> 0

\* The loop of calculateConfidenceScore over the first k entries of checks
RECURSIVE TotalScore(_, _)
TotalScore(checks, k) ==
  IF k = 0 THEN 0
  ELSE TotalScore(checks, k - 1)
         + (IF Weight(CheckNames[k]) # 0
            THEN checks[CheckNames[k]].confidence * Weight(CheckNames[k])
            ELSE 0)

RECURSIVE TotalWeight(_)
TotalWeight(k) ==
  IF k = 0 THEN 0 ELSE TotalWeight(k - 1) + Weight(CheckNames[k])

\* Mutant of MathRound: truncation (Math.floor) in place of rounding
MathFloor(n, d) == n \div d

\* Math.round(x) for x = n / d with d > 0: the nearest integer, halves upwards
MathRound(n, d) == (2 * n + d) \div (2 * d)

calculateConfidenceScore(checks) ==
  LET totalScore == TotalScore(checks, Len(CheckNames))
      totalWeight == TotalWeight(Len(CheckNames))
  IN IF totalWeight > 0 THEN MathRound(totalScore, totalWeight) ELSE 0

\* Mutant of getFlaggedReasons: the test on check.passed is inverted
getFlaggedReasonsInverted(checks) ==
  LET failed == SelectSeq(CheckNames, LAMBDA checkName : checks[checkName].passed)
  IN [i \in 1..Len(failed) |-> <<failed[i], checks[failed[i]].message>>]

getFlaggedReasons(checks) ==
  LET failed == SelectSeq(CheckNames, LAMBDA checkName : ~checks[checkName].passed)
  IN [i \in 1..Len(failed) |-> <<failed[i], checks[failed[i]].message>>]


generateVerificationNotes(checks) ==
  [i \in 1..Len(CheckNames) |->
     <<CheckNames[i], checks[CheckNames[i]].message, checks[CheckNames[i]].confidence>>]

\* Mutant of VerificationResult: validity needs a score above the threshold
VerificationResultStrict(checks) ==
  LET confidenceScore == calculateConfidenceScore(checks)
  IN [isValid |-> confidenceScore > mediumConfidence,
      confidenceScore |-> confidenceScore,
      checks |-> checks,
      flaggedReasons |-> getFlaggedReasons(checks),
      notes |-> generateVerificationNotes(checks)]

\* The object performVerificationChecks returns once the five checks are in
VerificationResult(checks) ==
  LET confidenceScore == calculateConfidenceScore(checks)
  IN [isValid |-> confidenceScore >= mediumConfidence,
      confidenceScore |-> confidenceScore,
      checks |-> checks,
      flaggedReasons |-> getFlaggedReasons(checks),
      notes |-> generateVerificationNotes(checks)]

\* ------------------------------------------------------------------------
\* anomalyDetectionService: the rules
\* ------------------------------------------------------------------------

\* An anomaly object of anomalyDetectionService
RiskFinding(type, severity, confidence, riskScore) ==
  [type |-> type, severity |-> severity, confidence |-> confidence,
   riskScore |-> riskScore]

\* this.thresholds and the limits written into the rules (cgpa in tenths)
DetectorMaxCgpa10 == 100
DetectorMaxPercentage == 100
GradeVarianceLimit == 25
SealQualityLimit == 50
MinSampleSize == 10
CgpaDeviationLimit10 == 20

\* new Date().getFullYear()
currentYear == 2026

\* str.includes(needle)
Includes(str, needle) ==
  \E k \in 0..(Len(str) - Len(needle)) :
    \A i \in 1..Len(needle) : str[k + i] = needle[i]

DigitChar(n) ==
  CASE n = 0 -> "0" [] n = 1 -> "1" [] n = 2 -> "2" [] n = 3 -> "3" [] n = 4 -> "4"
    [] n = 5 -> "5" [] n = 6 -> "6" [] n = 7 -> "7" [] n = 8 -> "8" [] n = 9 -> "9"

\* String(n) for a natural number n
RECURSIVE DecimalString(_)
DecimalString(n) ==
  IF n < 10 THEN <<DigitChar(n)>>
  ELSE DecimalString(n \div 10) \o <<DigitChar(n % 10)>>

\* `${certificate.cgpa || ''}` for a cgpa kept in tenths: 82 is "8.2", 120 is "12"
CgpaString(cgpa) ==
  IF ~TruthyNum(cgpa) THEN <<>>
  ELSE DecimalString(cgpa[1] \div 10)
         \o (IF cgpa[1] % 10 = 0 THEN <<>> ELSE <<".", DigitChar(cgpa[1] % 10)>>)

\* `${certificate.percentage || ''}`
PercentageString(percentage) ==
  IF ~TruthyNum(percentage) THEN <<>> ELSE DecimalString(percentage[1])

\* `${grade || ''} ${cgpa || ''} ${percentage || ''}`
gradeStr(certificate) ==
  certificate.grade \o <<" ">> \o CgpaString(certificate.cgpa) \o <<" ">>
    \o PercentageString(certificate.percentage)

\* this.patterns.suspiciousGrades: /A\+{2,}|O{3,}|100{2,}/i
suspiciousGrades(str) ==
  LET lower == toLowerCase(str)
  IN \/ Includes(lower, <<"a", "+", "+">>)
     \/ Includes(lower, <<"o", "o", "o">>)
     \/ Includes(lower, <<"1", "0", "0", "0">>)

\* this.patterns.sequentialNumbers: /123456|654321|111111|000000/
sequentialNumbers(str) ==
  \/ Includes(str, <<"1", "2", "3", "4", "5", "6">>)
  \/ Includes(str, <<"6", "5", "4", "3", "2", "1">>)
  \/ Includes(str, <<"1", "1", "1", "1", "1", "1">>)
  \/ Includes(str, <<"0", "0", "0", "0", "0", "0">>)

\* this.patterns.commonFakeNames: /test|sample|dummy|fake|john doe|jane doe/i
commonFakeNames(str) ==
  LET lower == toLowerCase(str)
  IN \/ Includes(lower, <<"t", "e", "s", "t">>)
     \/ Includes(lower, <<"s", "a", "m", "p", "l", "e">>)
     \/ Includes(lower, <<"d", "u", "m", "m", "y">>)
     \/ Includes(lower, <<"f", "a", "k", "e">>)
     \/ Includes(lower, <<"j", "o", "h", "n", " ", "d", "o", "e">>)
     \/ Includes(lower, <<"j", "a", "n", "e", " ", "d", "o", "e">>)

Letters ==
  {"a", "b", "c", "d", "e", "f", "g", "h", "i", "j", "k", "l", "m", "n", "o", "p",
   "q", "r", "s", "t", "u", "v", "w", "x", "y", "z",
   "A", "B", "C", "D", "E", "F", "G", "H", "I", "J", "K", "L", "M", "N", "O", "P",
   "Q", "R", "S", "T", "U", "V", "W", "X", "Y", "Z"}

\* this.patterns.invalidChars: /[^\w\s\.\-\/\(\)]/
invalidChars(str) ==
  \E i \in 1..Len(str) :
    str[i] \notin Letters \cup Digits \cup {"_", " ", ".", "-", "/", "(", ")"}

\* Mutant of detectorGradeTampering: the impossible grade needs both the cgpa
\* and the percentage out of range
detectorGradeTamperingBoth(certificate) ==
  (IF /\ certificate.cgpa # None /\ certificate.cgpa[1] > DetectorMaxCgpa10
      /\ certificate.percentage # None
      /\ certificate.percentage[1] > DetectorMaxPercentage
   THEN <<RiskFinding("IMPOSSIBLE_GRADE", "CRITICAL", 95, 95)>> ELSE <<>>)
  \o (IF /\ TruthyNum(certificate.cgpa)
         /\ TruthyNum(certificate.percentage)
         /\ Abs(100 * certificate.percentage[1] - CgpaToPercent100 * certificate.cgpa[1])
              > 100 * GradeVarianceLimit
      THEN <<RiskFinding("GRADE_INCONSISTENCY", "HIGH", 80, 75)>> ELSE <<>>)
  \o (IF suspiciousGrades(gradeStr(certificate))
      THEN <<RiskFinding("SUSPICIOUS_GRADE_PATTERN", "MEDIUM", 70, 60)>> ELSE <<>>)

\* anomalyDetectionService.detectGradeTampering: the findings it pushes
detectorGradeTampering(certificate) ==
  (IF \/ (certificate.cgpa # None /\ certificate.cgpa[1] > DetectorMaxCgpa10)
      \/ (certificate.percentage # None
            /\ certificate.percentage[1] > DetectorMaxPercentage)
   THEN <<RiskFinding("IMPOSSIBLE_GRADE", "CRITICAL", 95, 95)>> ELSE <<>>)
  \o (IF /\ TruthyNum(certificate.cgpa)
         /\ TruthyNum(certificate.percentage)
         /\ Abs(100 * certificate.percentage[1] - CgpaToPercent100 * certificate.cgpa[1])
              > 100 * GradeVarianceLimit
      THEN <<RiskFinding("GRADE_INCONSISTENCY", "HIGH", 80, 75)>> ELSE <<>>)
  \o (IF suspiciousGrades(gradeStr(certificate))
      THEN <<RiskFinding("SUSPICIOUS_GRADE_PATTERN", "MEDIUM", 70, 60)>> ELSE <<>>)

\* The tokens detectForgedSeals looks for, in its order
forgeryIndicators ==
  << <<"c", "o", "p", "y">>,
     <<"d", "u", "p", "l", "i", "c", "a", "t", "e">>,
     <<"p", "h", "o", "t", "o", "c", "o", "p", "y">>,
     <<"s", "c", "a", "n">>,
     <<"d", "i", "g", "i", "t", "a", "l", " ", "c", "o", "p", "y">>,
     <<"n", "o", "t", " ", "o", "r", "i", "g", "i", "n", "a", "l">>,
     <<"r", "e", "p", "r", "o", "d", "u", "c", "t", "i", "o", "n">> >>

\* One FORGERY_INDICATOR finding per token the text contains
detectForgedSeals(certificate, ocrResult) ==
  LET text == toLowerCase(ocrResult.text)
      found == SelectSeq(forgeryIndicators, LAMBDA indicator : Includes(text, indicator))
  IN (IF ocrResult.confidence < SealQualityLimit
      THEN <<RiskFinding("LOW_SEAL_QUALITY", "MEDIUM", 65, 55)>> ELSE <<>>)
     \o [i \in 1..Len(found) |-> RiskFinding("FORGERY_INDICATOR", "HIGH", 80, 75)]

\* anomalyDetectionService.detectSuspiciousPatterns
detectorSuspiciousPatterns(certificate) ==
  (IF sequentialNumbers(certificate.certificateNumber)
   THEN <<RiskFinding("SEQUENTIAL_CERTIFICATE_NUMBER", "HIGH", 85, 70)>> ELSE <<>>)
  \o (IF commonFakeNames(certificate.studentName)
      THEN <<RiskFinding("SUSPICIOUS_NAME", "HIGH", 90, 85)>> ELSE <<>>)
  \o (IF invalidChars(certificate.studentName)
      THEN <<RiskFinding("INVALID_CHARACTERS", "MEDIUM", 75, 60)>> ELSE <<>>)

\* performStatisticalAnalysis once prisma.certificate.aggregate has answered
\* institutionStats = [count, avgCgpa] (avgCgpa in tenths, None for null)
performStatisticalAnalysis(certificate, institutionStats) ==
  (IF /\ institutionStats.count > MinSampleSize
      /\ TruthyNum(certificate.cgpa)
      /\ TruthyNum(institutionStats.avgCgpa)
      /\ Abs(certificate.cgpa[1] - institutionStats.avgCgpa[1]) > CgpaDeviationLimit10
   THEN <<RiskFinding("STATISTICAL_OUTLIER_CGPA", "MEDIUM", 70, 50)>> ELSE <<>>)
  \o (IF certificate.passingYear # None /\ certificate.passingYear[1] > currentYear
      THEN <<RiskFinding("FUTURE_PASSING_YEAR", "CRITICAL", 100, 100)>> ELSE <<>>)

\* Rows of the blacklisted_entities table
Blacklist ==
  { [type |-> "STUDENT", identifier |-> <<"T", "e", "s", "t">>, isActive |-> TRUE],
    [type |-> "CERTIFICATE", identifier |-> <<"R", "U", "7">>, isActive |-> FALSE] }

\* The rows the findMany query of crossReferenceValidation returns
CrossReferenceDuplicates(certificate) ==
  { row \in StoredCertificates :
      /\ row.id # certificate.id
      /\ \/ row.certificateNumber = certificate.certificateNumber
         \/ /\ row.studentName = certificate.studentName
            /\ row.rollNumber = certificate.rollNumber
            /\ row.passingYear = certificate.passingYear }

\* The rows the findFirst query on the blacklist selects from
BlacklistRows(certificate) ==
  { entity \in Blacklist :
      /\ entity.isActive
      /\ \/ (entity.type = "CERTIFICATE"
               /\ entity.identifier = certificate.certificateNumber)
         \/ (entity.type = "STUDENT" /\ entity.identifier = certificate.studentName) }

duplicateFinding(certificate) ==
  IF CrossReferenceDuplicates(certificate) # {}
  THEN <<RiskFinding("DUPLICATE_CERTIFICATE", "CRITICAL", 95, 90)>> ELSE <<>>

blacklistFinding(certificate) ==
  IF BlacklistRows(certificate) # {}
  THEN <<RiskFinding("BLACKLISTED_ENTITY", "CRITICAL", 100, 100)>> ELSE <<>>

\* Array.prototype.sort with (a, b) => b.riskScore - a.riskScore is stable:
\* the place of anomalies[i] is one more than the number of findings of higher
\* riskScore, or of equal riskScore and pushed earlier
riskRank(anomalies, i) ==
  1 + Cardinality({ j \in 1..Len(anomalies) :
                      \/ anomalies[j].riskScore > anomalies[i].riskScore
                      \/ (anomalies[j].riskScore = anomalies[i].riskScore /\ j < i) })

\* Mutant of prioritizeAnomalies: the findings are ranked in the order they
\* were pushed, without sorting
prioritizeAnomaliesUnsorted(anomalies) ==
  [k \in 1..Len(anomalies) |->
     [type |-> anomalies[k].type, severity |-> anomalies[k].severity,
      confidence |-> anomalies[k].confidence, riskScore |-> anomalies[k].riskScore,
      priority |-> k, detectionMethod |-> "AI_ML", timestamp |-> Today]]

prioritizeAnomalies(anomalies) ==
  [k \in 1..Len(anomalies) |->
     LET i == CHOOSE i \in 1..Len(anomalies) : riskRank(anomalies, i) = k
     IN [type |-> anomalies[i].type, severity |-> anomalies[i].severity,
         confidence |-> anomalies[i].confidence, riskScore |-> anomalies[i].riskScore,
         priority |-> k, detectionMethod |-> "AI_ML", timestamp |-> Today]]

\* ------------------------------------------------------------------------
\* BulkUploadService.processRecords, two uploads side by side
\* ------------------------------------------------------------------------
\* bulk.store is the certificates table, a sequence of rows in insertion
\* order; the unique index certificates_certificateNumber_key makes a create
\* with a stored certificate number reject.  Each upload goes through its
\* records one after the other; between two awaits of one upload the other
\* upload may take any number of steps.

Uploaders == {1, 2}

\* A record of an uploaded file after parseInt / parseFloat of its numbers
BulkRecord(number, name, roll, cgpa, legacy) ==
  Certificate("", number, name, <<"c", "s">>, Some(2023), roll, <<"A">>, cgpa,
              Some(80), Today, None, "", legacy, None, None)

RecordStored == BulkRecord(<<"R", "U", "7">>, <<"C", "d">>, <<"r", "2">>, Some(82), TRUE)
RecordNew == BulkRecord(<<"R", "U", "5">>, <<"C", "d">>, <<"r", "2">>, Some(82), FALSE)
RecordSameNumber == BulkRecord(<<"R", "U", "5">>, <<"E", "f">>, <<"r", "3">>, Some(70), TRUE)
RecordNoName == BulkRecord(<<"R", "U", "6">>, <<>>, <<"r", "4">>, Some(82), TRUE)
RecordFake == BulkRecord(<<"R", "U", "4">>, <<"T", "e", "s", "t">>, <<"r", "5">>, None, TRUE)

\* The files that are uploaded
BulkFiles ==
  { <<RecordNew, RecordStored>>, <<RecordSameNumber, RecordNew>>,
    <<RecordNoName, RecordNew>>, <<RecordFake>>, <<RecordStored, RecordSameNumber>> }

\* The table before the uploads: row c1, not yet verified
BulkInitialStore == <<Row1 @@ [status |-> "PENDING"]>>

\* prisma.certificate.create gives the row an id of its own
BulkId(u, i) ==
  CASE u = 1 /\ i = 1 -> "u1r1" [] u = 1 /\ i = 2 -> "u1r2"
    [] u = 2 /\ i = 1 -> "u2r1" [] u = 2 /\ i = 2 -> "u2r2"

\* validateRecord(record) returns no error
validateRecord(record) ==
  /\ TruthyStr(record.certificateNumber)
  /\ TruthyStr(record.studentName)
  /\ TruthyStr(record.course)
  /\ record.passingYear # None
  /\ record.passingYear[1] >= 1950
  /\ record.passingYear[1] <= currentYear
  /\ TruthyNum(record.cgpa) => (record.cgpa[1] >= 0 /\ record.cgpa[1] <= 100)
  /\ TruthyNum(record.percentage) =>
       (record.percentage[1] >= 0 /\ record.percentage[1] <= 100)
  /\ Len(record.certificateNumber) >= 3

\* The rows the findFirst query of processRecords selects from
ExistingCertificates(store, record, institutionId) ==
  { k \in 1..Len(store) :
      \/ store[k].certificateNumber = record.certificateNumber
      \/ /\ store[k].studentName = record.studentName
         /\ store[k].rollNumber = record.rollNumber
         /\ store[k].institutionId = institutionId }

NumberStored(store, number) ==
  \E k \in 1..Len(store) : store[k].certificateNumber = number

\* processRecord(record, institutionId) as the row prisma.certificate.create makes
processRecord(record, institutionId, id) ==
  [record EXCEPT !.id = id, !.institutionId = institutionId] @@ [status |-> "PENDING"]

\* The rows crossReferenceValidation finds in the table for a new row
BulkDuplicates(store, row) ==
  { k \in 1..Len(store) :
      /\ store[k].id # row.id
      /\ \/ store[k].certificateNumber = row.certificateNumber
         \/ /\ store[k].studentName = row.studentName
            /\ store[k].rollNumber = row.rollNumber
            /\ store[k].passingYear = row.passingYear }

\* detectAllAnomalies(certificate, {text: name course number, confidence: 95});
\* no row of the table is VERIFIED, so the aggregate counts no record
BulkAnomalies(store, row, crossReferenced) ==
  detectorGradeTampering(row)
    \o detectForgedSeals(row, [text |-> row.studentName \o <<" ">> \o row.course
                                         \o <<" ">> \o row.certificateNumber,
                               confidence |-> 95])
    \o detectorSuspiciousPatterns(row)
    \o performStatisticalAnalysis(row, [count |-> 0, avgCgpa |-> None])
    \o (IF crossReferenced /\ BulkDuplicates(store, row) # {}
        THEN <<RiskFinding("DUPLICATE_CERTIFICATE", "CRITICAL", 95, 90)>> ELSE <<>>)
    \o (IF crossReferenced THEN blacklistFinding(row) ELSE <<>>)

HighRisk(anomalies) ==
  \E k \in 1..Len(anomalies) : anomalies[k].severity \in {"CRITICAL", "HIGH"}

\* ------------------------------------------------------------------------
\* One call of verifyCertificate(certificateData, verificationRequest)
\* ------------------------------------------------------------------------

VARIABLES
  pc,                \* where the call is: the await it is about to make
  certificate,       \* certificateData
  contract,          \* blockchainService.contract is set (TRUE) or null
  checks,            \* the checks object of performVerificationChecks
  ran,               \* the sub-checks that have returned, in order
  ledgerCalls,       \* digests passed to blockchainService.validateCertificate
  failed,            \* the sub-checks whose collaborator call raised an error
  verificationResult,\* None, or Some(result of performVerificationChecks)
  verificationRow,   \* None, or Some(row of the verifications table)
  verificationCount, \* certificate.verificationCount of the stored row
  anomalyRows,       \* types of the rows of the anomalies table
  returned,          \* None, or Some(value returned to the caller)
  call,              \* a direct call of a helper: its arguments and result
  detection,         \* a call of anomalyDetectionService.detectAllAnomalies
  bulk,              \* bulk uploads in progress and the certificates table
  concurrent         \* verifyCertificate calls running side by side

vars ==
  <<pc, certificate, contract, checks, ran, ledgerCalls, failed,
    verificationResult, verificationRow, verificationCount, anomalyRows, returned,
    call, detection, bulk, concurrent>>

\* No helper is being called on its own; no detectAllAnomalies call is going on
NoCall == [op |-> "none", args |-> <<>>, result |-> None]
NoDetection == [pc |-> "none"]
\* No bulk upload is going on; no calls run side by side
NoBulk == [pc |-> "none"]
NoConcurrent == <<>>
otherCalls == <<call, detection, bulk, concurrent>>

Init ==
  /\ pc = "create"
  /\ certificate \in Candidates
  /\ contract \in BOOLEAN
  /\ checks = [checkName \in {CheckNames[i] : i \in 1..Len(CheckNames)} |-> NotRun]
  /\ ran = <<>>
  /\ ledgerCalls = <<>>
  /\ failed = {}
  /\ verificationResult = None
  /\ verificationRow = None
  /\ verificationCount = 0
  /\ anomalyRows = <<>>
  /\ returned = None
  /\ call = NoCall
  /\ detection = NoDetection
  /\ bulk = NoBulk
  /\ concurrent = NoConcurrent

\* checks.<name> = result, and on to the next await
SetCheck(checkName, result, next) ==
  /\ checks' = [checks EXCEPT ![checkName] = result]
  /\ ran' = Append(ran, checkName)
  /\ pc' = next

\* The catch block of verifyCertificate: throw new Error('Verification failed')
Throw ==
  /\ pc' = "thrown"
  /\ UNCHANGED <<certificate, contract, checks, ran, ledgerCalls, failed,
                 verificationResult, verificationCount, anomalyRows, returned>>

\* prisma.verification.create: the row starts with the default status
CreateVerification ==
  /\ pc = "create"
  /\ UNCHANGED otherCalls
  /\ \/ /\ verificationRow' = Some([status |-> "PENDING", isValid |-> None,
                                    confidenceScore |-> None, flaggedReasons |-> <<>>])
        /\ pc' = "databaseMatch"
        /\ UNCHANGED <<certificate, contract, checks, ran, ledgerCalls, failed,
                       verificationResult, verificationCount, anomalyRows, returned>>
     \/ /\ Throw
        /\ UNCHANGED verificationRow

\* findFirst has no orderBy: it returns any row the OR filter selects.  A
\* rejected query (or getPrismaClient throwing) lands in the catch block.
CheckDatabaseMatch ==
  /\ pc = "databaseMatch"
  /\ UNCHANGED otherCalls
  /\ \/ /\ DatabaseMatchRows(certificate) = {}
        /\ SetCheck("databaseMatch", DatabaseMatchNotFound, "blockchainValidation")
        /\ UNCHANGED failed
     \/ /\ \E dbCertificate \in DatabaseMatchRows(certificate) :
             SetCheck("databaseMatch", DatabaseMatchFound(certificate, dbCertificate),
                      "blockchainValidation")
        /\ UNCHANGED failed
     \/ /\ SetCheck("databaseMatch", DatabaseMatchError, "blockchainValidation")
        /\ failed' = failed \cup {"databaseMatch"}
  /\ UNCHANGED <<certificate, contract, ledgerCalls, verificationResult,
                 verificationRow, verificationCount, anomalyRows, returned>>

\* validateCertificate catches the errors of the contract call itself, so the
\* catch block of checkBlockchainValidation is never entered.
CheckBlockchainValidation ==
  /\ pc = "blockchainValidation"
  /\ UNCHANGED otherCalls
  /\ \/ /\ certificate.blockchainHash = None
        /\ SetCheck("blockchainValidation", BlockchainWithoutHash(certificate), "anomalyDetection")
        /\ UNCHANGED <<ledgerCalls, failed>>
     \/ /\ certificate.blockchainHash # None
        /\ ledgerCalls' = Append(ledgerCalls, certificate.blockchainHash[1])
        /\ \/ /\ ~contract
              /\ SetCheck("blockchainValidation", BlockchainWithResult(LedgerNotConfigured), "anomalyDetection")
              /\ failed' = failed \cup {"blockchainValidation"}
           \/ /\ contract
              /\ SetCheck("blockchainValidation", BlockchainWithResult(LedgerAnswer(certificate.blockchainHash[1])),
                          "anomalyDetection")
              /\ UNCHANGED failed
           \/ /\ contract
              /\ SetCheck("blockchainValidation", BlockchainWithResult(LedgerCallFailed), "anomalyDetection")
              /\ failed' = failed \cup {"blockchainValidation"}
  /\ UNCHANGED <<certificate, contract, verificationResult, verificationRow,
                 verificationCount, anomalyRows, returned>>

\* storeAnomalies creates one row per finding and swallows the error of a
\* create that fails: the first stored findings then have their rows.  The
\* rules themselves do not throw on a certificate row (its fields are
\* strings, numbers and dates), so the catch block of detectAnomalies is
\* never entered.
DetectAnomalies ==
  /\ pc = "anomalyDetection"
  /\ UNCHANGED otherCalls
  /\ LET anomalies == AnomalyList(certificate)
     IN \/ /\ anomalyRows' =
                anomalyRows \o [i \in 1..Len(anomalies) |-> anomalies[i].type]
           /\ UNCHANGED failed
        \/ /\ \E stored \in 0..(Len(anomalies) - 1) :
                anomalyRows' = anomalyRows \o [i \in 1..stored |-> anomalies[i].type]
           /\ failed' = failed \cup {"anomalyDetection"}
  /\ SetCheck("anomalyDetection", AnomalyResult(certificate), "institutionValidation")
  /\ UNCHANGED <<certificate, contract, ledgerCalls, verificationResult,
                 verificationRow, verificationCount, returned>>

\* Mutant of ValidateInstitution: once an earlier sub-check has failed, the
\* lookup is not made and the check reports an error
ValidateInstitutionAfterFailure ==
  /\ pc = "institutionValidation"
  /\ UNCHANGED otherCalls
  /\ IF failed = {}
     THEN SetCheck("institutionValidation", InstitutionResult(certificate), "duplicateCheck")
     ELSE SetCheck("institutionValidation", InstitutionError, "duplicateCheck")
  /\ UNCHANGED <<certificate, contract, ledgerCalls, failed, verificationResult,
                 verificationRow, verificationCount, anomalyRows, returned>>

ValidateInstitution ==
  /\ pc = "institutionValidation"
  /\ UNCHANGED otherCalls
  /\ \/ /\ SetCheck("institutionValidation", InstitutionResult(certificate), "duplicateCheck")
        /\ UNCHANGED failed
     \/ /\ SetCheck("institutionValidation", InstitutionError, "duplicateCheck")
        /\ failed' = failed \cup {"institutionValidation"}
  /\ UNCHANGED <<certificate, contract, ledgerCalls, verificationResult,
                 verificationRow, verificationCount, anomalyRows, returned>>

CheckForDuplicates ==
  /\ pc = "duplicateCheck"
  /\ UNCHANGED otherCalls
  /\ \/ /\ SetCheck("duplicateCheck", DuplicateResult(certificate), "aggregate")
        /\ UNCHANGED failed
     \/ /\ SetCheck("duplicateCheck", DuplicateError, "aggregate")
        /\ failed' = failed \cup {"duplicateCheck"}
  /\ UNCHANGED <<certificate, contract, ledgerCalls, verificationResult,
                 verificationRow, verificationCount, anomalyRows, returned>>

\* Mutant of Aggregate: the score is computed as soon as the institution check
\* is in, without waiting for the duplicate check
AggregateEarly ==
  /\ pc \in {"duplicateCheck", "aggregate"}
  /\ UNCHANGED otherCalls
  /\ verificationResult' = Some(VerificationResult(checks))
  /\ pc' = "update"
  /\ UNCHANGED <<certificate, contract, checks, ran, ledgerCalls, failed,
                 verificationRow, verificationCount, anomalyRows, returned>>

\* The rest of performVerificationChecks, after the last await
Aggregate ==
  /\ pc = "aggregate"
  /\ UNCHANGED otherCalls
  /\ verificationResult' = Some(VerificationResult(checks))
  /\ pc' = "update"
  /\ UNCHANGED <<certificate, contract, checks, ran, ledgerCalls, failed,
                 verificationRow, verificationCount, anomalyRows, returned>>

\* prisma.verification.update
UpdateVerification ==
  /\ pc = "update"
  /\ UNCHANGED otherCalls
  /\ \/ /\ verificationRow' =
             Some([status |-> IF verificationResult[1].isValid THEN "COMPLETED"
                              ELSE "FAILED",
                   isValid |-> Some(verificationResult[1].isValid),
                   confidenceScore |-> Some(verificationResult[1].confidenceScore),
                   flaggedReasons |-> verificationResult[1].flaggedReasons])
        /\ pc' = "increment"
        /\ UNCHANGED <<certificate, contract, checks, ran, ledgerCalls, failed,
                       verificationResult, verificationCount, anomalyRows, returned>>
     \/ /\ Throw
        /\ UNCHANGED verificationRow

\* prisma.certificate.update, then return
UpdateCertificate ==
  /\ pc = "increment"
  /\ UNCHANGED otherCalls
  /\ \/ /\ verificationCount' = verificationCount + 1
        /\ returned' = verificationResult
        /\ pc' = "returned"
        /\ UNCHANGED <<certificate, contract, checks, ran, ledgerCalls, failed,
                       verificationResult, verificationRow, anomalyRows>>
     \/ /\ Throw
        /\ UNCHANGED verificationRow

Next ==
  \/ CreateVerification
  \/ CheckDatabaseMatch
  \/ CheckBlockchainValidation
  \/ DetectAnomalies
  \/ ValidateInstitution
  \/ CheckForDuplicates
  \/ Aggregate
  \/ UpdateVerification
  \/ UpdateCertificate

Spec == Init /\ [][Next]_vars

\* ------------------------------------------------------------------------
\* Direct calls of compareDetails and calculateStringSimilarity
\* ------------------------------------------------------------------------

verifyVars ==
  <<pc, certificate, contract, checks, ran, ledgerCalls, failed,
    verificationResult, verificationRow, verificationCount, anomalyRows, returned>>

\* No verifyCertificate call is going on
NoVerification ==
  /\ pc = "none"
  /\ certificate = Row1
  /\ contract = FALSE
  /\ checks = [checkName \in {CheckNames[i] : i \in 1..Len(CheckNames)} |-> NotRun]
  /\ ran = <<>>
  /\ ledgerCalls = <<>>
  /\ failed = {}
  /\ verificationResult = None
  /\ verificationRow = None
  /\ verificationCount = 0
  /\ anomalyRows = <<>>
  /\ returned = None

\* The strings of at most MaxLen characters over Alphabet
MaxLen == 3
Alphabet == {"a", "b"}
Strings == UNION {[1..n -> Alphabet] : n \in 0..MaxLen}

SimilarityCalls ==
  { [op |-> "calculateStringSimilarity", args |-> <<str1, str2>>, result |-> None] :
      str1 \in Strings, str2 \in Strings }

\* Stored rows compareDetails is given as cert2: Row3 has no cgpa, the third
\* row neither grade nor percentage
CompareRows == {Row1, Row3, [Row1 EXCEPT !.grade = <<>>, !.percentage = None]}

\* What a caller may pass as cert1 against the stored row: the row itself, or
\* the row with some fields missing or different
Resubmissions(row) ==
  { [row EXCEPT !.studentName = name, !.cgpa = cgpa, !.dateOfIssue = issued,
                !.certificateNumber = number] :
      name \in {row.studentName, <<>>, <<"A", "c">>},
      cgpa \in {row.cgpa, None, Some(70)},
      issued \in {row.dateOfIssue, row.dateOfIssue + 3, row.dateOfIssue + 10},
      number \in {row.certificateNumber, <<"R", "U", "0">>} }

CompareCalls ==
  UNION { { [op |-> "compareDetails", args |-> <<cert1, cert2>>, result |-> None] :
              cert1 \in Resubmissions(cert2) } : cert2 \in CompareRows }

HelperInit ==
  /\ NoVerification
  /\ detection = NoDetection
  /\ bulk = NoBulk
  /\ concurrent = NoConcurrent
  /\ \/ call \in SimilarityCalls
     \/ call \in CompareCalls

CalculateStringSimilarity ==
  /\ call.op = "calculateStringSimilarity"
  /\ call.result = None
  /\ call' = [call EXCEPT
                !.result = Some(calculateStringSimilarity(call.args[1], call.args[2]))]
  /\ UNCHANGED <<verifyVars, detection, bulk, concurrent>>

CompareDetails ==
  /\ call.op = "compareDetails"
  /\ call.result = None
  /\ call' = [call EXCEPT !.result = Some(compareDetails(call.args[1], call.args[2]))]
  /\ UNCHANGED <<verifyVars, detection, bulk, concurrent>>

HelperNext ==
  \/ CalculateStringSimilarity
  \/ CompareDetails

HelperSpec == HelperInit /\ [][HelperNext]_vars

\* ------------------------------------------------------------------------
\* Direct calls of anomalyDetectionService.detectAllAnomalies
\* ------------------------------------------------------------------------
\* The call gets a certificate and an OCR result {text, confidence}.  Its
\* outer catch, which returns [], is entered only when ocrResult has no text
\* or when getPrismaClient throws before connectDB has run; the server
\* connects before it serves, and the caller always passes a text, so the call
\* runs its six steps in order.  Each repository query may reject; each
\* rejection is caught inside the check that made the query.

\* The certificates handed to the detector
DetectorCertificates ==
  { [Row1 EXCEPT !.cgpa = cgpa, !.percentage = percentage, !.grade = grade,
                 !.certificateNumber = number, !.studentName = name,
                 !.passingYear = year] :
      cgpa \in {Some(82), Some(105), None},
      percentage \in {Some(80), Some(101), Some(30)},
      grade \in {<<"A">>, <<"A", "+", "+">>},
      number \in {<<"R", "U", "7">>, <<"1", "2", "3", "4", "5", "6">>},
      name \in {<<"A", "b">>, <<"T", "e", "s", "t">>, <<"a", "@">>},
      year \in {Some(2023), Some(currentYear + 1)} }

OcrResults ==
  [text : {<<"A", "b", " ", "c", "s">>,
           <<"P", "h", "o", "t", "o", "c", "o", "p", "y">>},
   confidence : {40, 95}]

\* What prisma.certificate.aggregate answers for the institution and course
InstitutionStats ==
  { [count |-> 10, avgCgpa |-> Some(60)],
    [count |-> 11, avgCgpa |-> Some(60)],
    [count |-> 11, avgCgpa |-> None] }

DetectorInit ==
  /\ NoVerification
  /\ call = NoCall
  /\ bulk = NoBulk
  /\ concurrent = NoConcurrent
  /\ detection \in [pc : {"gradeTampering"}, certificate : DetectorCertificates,
                    ocrResult : OcrResults, institutionStats : InstitutionStats,
                    anomalies : {<<>>}, failed : {{}}, returned : {<<>>}]

\* One step of detectAllAnomalies: push the findings, go on to the next step
DetectorStep(from, to, found, failure) ==
  /\ detection.pc = from
  /\ detection' = [detection EXCEPT !.pc = to,
                                    !.anomalies = @ \o found,
                                    !.failed = @ \cup failure]
  /\ UNCHANGED verifyVars
  /\ UNCHANGED <<call, bulk, concurrent>>

DetectGradeTampering ==
  DetectorStep("gradeTampering", "forgedSeals",
               detectorGradeTampering(detection.certificate), {})

DetectForgedSeals ==
  DetectorStep("forgedSeals", "suspiciousPatterns",
               detectForgedSeals(detection.certificate, detection.ocrResult), {})

DetectSuspiciousPatterns ==
  DetectorStep("suspiciousPatterns", "statisticalAnalysis",
               detectorSuspiciousPatterns(detection.certificate), {})

\* The aggregate query answers, or rejects and the catch logs the error: the
\* passing-year test is inside the same try block and is skipped with it
PerformStatisticalAnalysis ==
  \/ DetectorStep("statisticalAnalysis", "crossReference",
                  performStatisticalAnalysis(detection.certificate,
                                             detection.institutionStats), {})
  \/ DetectorStep("statisticalAnalysis", "crossReference", <<>>, {"aggregate"})

\* findMany then findFirst, in one try block: a rejection of the first skips
\* the second
CrossReferenceValidation ==
  \/ DetectorStep("crossReference", "prioritize",
                  duplicateFinding(detection.certificate)
                    \o blacklistFinding(detection.certificate), {})
  \/ DetectorStep("crossReference", "prioritize",
                  duplicateFinding(detection.certificate), {"blacklistedEntity"})
  \/ DetectorStep("crossReference", "prioritize", <<>>, {"findMany"})

\* detection.anomalies keeps the findings in the order they were pushed;
\* detection.returned is the sorted and ranked list
PrioritizeAnomalies ==
  /\ detection.pc = "prioritize"
  /\ detection' = [detection EXCEPT !.pc = "returned",
                                    !.returned = prioritizeAnomalies(detection.anomalies)]
  /\ UNCHANGED verifyVars
  /\ UNCHANGED <<call, bulk, concurrent>>

DetectorNext ==
  \/ DetectGradeTampering
  \/ DetectForgedSeals
  \/ DetectSuspiciousPatterns
  \/ PerformStatisticalAnalysis
  \/ CrossReferenceValidation
  \/ PrioritizeAnomalies

DetectorSpec == DetectorInit /\ [][DetectorNext]_vars

\* ------------------------------------------------------------------------
\* Two bulk uploads side by side
\* ------------------------------------------------------------------------

\* processRecords(records, institutionId, userId) at its first record
NewUpload(records, institutionId) ==
  [records |-> records, institutionId |-> institutionId, i |-> 1, pc |-> "check",
   successfulUploads |-> 0, failedUploads |-> 0, outcomes |-> <<>>,
   warnings |-> <<>>]

BulkInit ==
  /\ NoVerification
  /\ call = NoCall
  /\ detection = NoDetection
  /\ concurrent = NoConcurrent
  /\ bulk \in [store : {BulkInitialStore}, ledger : {{}}, anomalies : {{}},
               uploads : { <<NewUpload(first, "i1"), NewUpload(second, institutionId)>> :
                             first \in BulkFiles, second \in BulkFiles,
                             institutionId \in {"i1", "i2"} }]

\* The loop goes on to its next record, or processRecords returns
NextRecord(upload) ==
  [upload EXCEPT !.i = @ + 1,
                 !.pc = IF upload.i + 1 > Len(upload.records) THEN "done" ELSE "check"]

\* The record is given up: it is listed in errors or duplicates and counted in
\* failedUploads; stored tells whether its certificate number was in the table
RecordFailed(upload, kind, stored) ==
  NextRecord([upload EXCEPT !.failedUploads = @ + 1,
                            !.outcomes = Append(@, [kind |-> kind, stored |-> stored])])

\* result.successfulUploads++ at the end of the iteration
RecordDone(upload) == NextRecord([upload EXCEPT !.successfulUploads = @ + 1])

BulkFrame == UNCHANGED <<verifyVars, call, detection, concurrent>>

\* validateRecord, then the findFirst query for an existing certificate
BulkCheck(u) ==
  LET upload == bulk.uploads[u]
      record == upload.records[upload.i]
      stored == NumberStored(bulk.store, record.certificateNumber)
  IN /\ upload.pc = "check"
     /\ \/ /\ ~validateRecord(record)
           /\ bulk' = [bulk EXCEPT !.uploads[u] = RecordFailed(upload, "invalid", stored)]
        \/ /\ validateRecord(record)
           /\ ExistingCertificates(bulk.store, record, upload.institutionId) # {}
           /\ bulk' = [bulk EXCEPT !.uploads[u] = RecordFailed(upload, "duplicate", stored)]
        \/ /\ validateRecord(record)
           /\ ExistingCertificates(bulk.store, record, upload.institutionId) = {}
           /\ bulk' = [bulk EXCEPT !.uploads[u].pc = "create"]
        \/ /\ validateRecord(record)
           /\ bulk' = [bulk EXCEPT !.uploads[u] = RecordFailed(upload, "error", stored)]
     /\ BulkFrame

\* Mutant of BulkCreate: the table has no unique index on certificateNumber
BulkCreateNoIndex(u) ==
  LET upload == bulk.uploads[u]
      record == upload.records[upload.i]
      stored == NumberStored(bulk.store, record.certificateNumber)
  IN /\ upload.pc = "create"
     /\ \/ bulk' = [bulk EXCEPT
                      !.store = Append(@, processRecord(record, upload.institutionId,
                                                        BulkId(u, upload.i))),
                      !.uploads[u].outcomes =
                         Append(@, [kind |-> "inserted", stored |-> stored]),
                      !.uploads[u].pc = IF record.isLegacy THEN "anomalies"
                                        ELSE "blockchain"]
        \/ bulk' = [bulk EXCEPT !.uploads[u] = RecordFailed(upload, "error", stored)]
     /\ BulkFrame

\* prisma.certificate.create: the row is inserted unless the query rejects,
\* which it does whenever the certificate number is in the table
BulkCreate(u) ==
  LET upload == bulk.uploads[u]
      record == upload.records[upload.i]
      stored == NumberStored(bulk.store, record.certificateNumber)
  IN /\ upload.pc = "create"
     /\ \/ /\ ~stored
           /\ bulk' = [bulk EXCEPT
                         !.store = Append(@, processRecord(record, upload.institutionId,
                                                           BulkId(u, upload.i))),
                         !.uploads[u].outcomes =
                            Append(@, [kind |-> "inserted", stored |-> stored]),
                         !.uploads[u].pc = IF record.isLegacy THEN "anomalies"
                                           ELSE "blockchain"]
        \/ bulk' = [bulk EXCEPT !.uploads[u] = RecordFailed(upload, "error", stored)]
     /\ BulkFrame

\* The place in the table of the row this upload has just created
OwnRow(u) ==
  CHOOSE k \in 1..Len(bulk.store) : bulk.store[k].id = BulkId(u, bulk.uploads[u].i)

\* storeCertificateOnBlockchain, generateQRCode and the update of the row, in
\* one try block: a failure leaves a warning and the row without its digest
BulkBlockchain(u) ==
  LET upload == bulk.uploads[u]
      k == OwnRow(u)
      digest == generateCertificateHash(bulk.store[k])
  IN /\ upload.pc = "blockchain"
     /\ \/ bulk' = [bulk EXCEPT !.ledger = @ \cup {digest},
                                !.store[k].blockchainHash = Some(digest),
                                !.uploads[u].pc = "anomalies"]
        \/ bulk' = [bulk EXCEPT !.ledger = @ \cup {digest},
                                !.uploads[u].warnings = Append(@, "blockchain"),
                                !.uploads[u].pc = "anomalies"]
        \/ bulk' = [bulk EXCEPT !.uploads[u].warnings = Append(@, "blockchain"),
                                !.uploads[u].pc = "anomalies"]
     /\ BulkFrame

\* detectAllAnomalies and storeAnomalies: the cross-reference queries answer
\* or reject, the rows of the findings are created or the first create rejects
BulkDetect(u) ==
  LET upload == bulk.uploads[u]
      k == OwnRow(u)
  IN /\ upload.pc = "anomalies"
     /\ \E crossReferenced \in BOOLEAN, written \in BOOLEAN :
          LET anomalies == prioritizeAnomalies(
                             BulkAnomalies(bulk.store, bulk.store[k], crossReferenced))
              rows == IF written
                      THEN { <<bulk.store[k].id, n, anomalies[n].type>> :
                               n \in 1..Len(anomalies) }
                      ELSE {}
          IN bulk' = [bulk EXCEPT
                        !.anomalies = @ \cup rows,
                        !.uploads[u] = IF HighRisk(anomalies)
                                       THEN [upload EXCEPT !.pc = "flag"]
                                       ELSE RecordDone(upload)]
     /\ BulkFrame

\* The update that flags the row; its rejection is caught and logged
BulkFlag(u) ==
  LET upload == bulk.uploads[u]
      k == OwnRow(u)
  IN /\ upload.pc = "flag"
     /\ \/ bulk' = [bulk EXCEPT
                      !.store[k].status = "FLAGGED",
                      !.uploads[u] = RecordDone([upload EXCEPT
                                                   !.warnings = Append(@, "flagged")])]
        \/ bulk' = [bulk EXCEPT !.uploads[u] = RecordDone(upload)]
     /\ BulkFrame

BulkNext ==
  \E u \in Uploaders :
    \/ BulkCheck(u)
    \/ BulkCreate(u)
    \/ BulkBlockchain(u)
    \/ BulkDetect(u)
    \/ BulkFlag(u)

BulkSpec == BulkInit /\ [][BulkNext]_vars

\* ------------------------------------------------------------------------
\* verifyCertificate calls side by side on one certificate
\* ------------------------------------------------------------------------

\* The requests whose verifyCertificate calls are in progress together
Callers == {"a", "b"}

\* A call at its first await: nothing checked, no verification row of its own
NewCall ==
  [pc |-> "create",
   checks |-> [checkName \in {CheckNames[i] : i \in 1..Len(CheckNames)} |-> NotRun],
   verificationResult |-> None, verificationRow |-> None, increments |-> 0]

\* The certificate the calls are about: a clean row, a row with findings, and
\* a candidate that matches no stored row and has no digest
SharedCertificates ==
  {Row4, Row2,
   [Row1 EXCEPT !.certificateNumber = <<"1", "2", "3">>, !.studentName = <<"a", "1">>,
                !.blockchainHash = None]}

\* The calls share the certificate row, the ledger configuration, the
\* anomalies table and the verificationCount column
ConcurrentInit ==
  /\ pc = "none"
  /\ certificate \in SharedCertificates
  /\ contract \in BOOLEAN
  /\ checks = [checkName \in {CheckNames[i] : i \in 1..Len(CheckNames)} |-> NotRun]
  /\ ran = <<>>
  /\ ledgerCalls = <<>>
  /\ failed = {}
  /\ verificationResult = None
  /\ verificationRow = None
  /\ verificationCount = 0
  /\ anomalyRows = <<>>
  /\ returned = None
  /\ call = NoCall
  /\ detection = NoDetection
  /\ bulk = NoBulk
  /\ concurrent = [c \in Callers |-> NewCall]

ConcurrentFrame ==
  UNCHANGED <<pc, certificate, contract, checks, ran, ledgerCalls, failed,
              verificationResult, verificationRow, returned, call, detection, bulk>>

\* checks.<name> = result in call c, and on to its next await
SetCallCheck(c, checkName, result, next) ==
  concurrent' = [concurrent EXCEPT ![c].checks[checkName] = result, ![c].pc = next]

\* prisma.verification.create of call c, or the catch block
CallCreateVerification(c) ==
  /\ concurrent[c].pc = "create"
  /\ \/ concurrent' = [concurrent EXCEPT
                         ![c].verificationRow =
                            Some([status |-> "PENDING", isValid |-> None,
                                  confidenceScore |-> None, flaggedReasons |-> <<>>]),
                         ![c].pc = "databaseMatch"]
     \/ concurrent' = [concurrent EXCEPT ![c].pc = "thrown"]
  /\ UNCHANGED <<verificationCount, anomalyRows>>
  /\ ConcurrentFrame

CallDatabaseMatch(c) ==
  /\ concurrent[c].pc = "databaseMatch"
  /\ \/ /\ DatabaseMatchRows(certificate) = {}
        /\ SetCallCheck(c, "databaseMatch", DatabaseMatchNotFound, "blockchainValidation")
     \/ \E dbCertificate \in DatabaseMatchRows(certificate) :
          SetCallCheck(c, "databaseMatch", DatabaseMatchFound(certificate, dbCertificate),
                       "blockchainValidation")
     \/ SetCallCheck(c, "databaseMatch", DatabaseMatchError, "blockchainValidation")
  /\ UNCHANGED <<verificationCount, anomalyRows>>
  /\ ConcurrentFrame

CallBlockchainValidation(c) ==
  /\ concurrent[c].pc = "blockchainValidation"
  /\ \/ /\ certificate.blockchainHash = None
        /\ SetCallCheck(c, "blockchainValidation", BlockchainWithoutHash(certificate),
                        "anomalyDetection")
     \/ /\ certificate.blockchainHash # None
        /\ \/ /\ ~contract
              /\ SetCallCheck(c, "blockchainValidation",
                              BlockchainWithResult(LedgerNotConfigured), "anomalyDetection")
           \/ /\ contract
              /\ SetCallCheck(c, "blockchainValidation",
                              BlockchainWithResult(LedgerAnswer(certificate.blockchainHash[1])),
                              "anomalyDetection")
           \/ /\ contract
              /\ SetCallCheck(c, "blockchainValidation",
                              BlockchainWithResult(LedgerCallFailed), "anomalyDetection")
  /\ UNCHANGED <<verificationCount, anomalyRows>>
  /\ ConcurrentFrame

\* detectAnomalies of call c: every call stores the rows of its own findings
CallDetectAnomalies(c) ==
  /\ concurrent[c].pc = "anomalyDetection"
  /\ LET anomalies == AnomalyList(certificate)
     IN \E stored \in 0..Len(anomalies) :
          anomalyRows' = anomalyRows \o [i \in 1..stored |-> anomalies[i].type]
  /\ SetCallCheck(c, "anomalyDetection", AnomalyResult(certificate), "institutionValidation")
  /\ UNCHANGED verificationCount
  /\ ConcurrentFrame

CallValidateInstitution(c) ==
  /\ concurrent[c].pc = "institutionValidation"
  /\ \/ SetCallCheck(c, "institutionValidation", InstitutionResult(certificate),
                     "duplicateCheck")
     \/ SetCallCheck(c, "institutionValidation", InstitutionError, "duplicateCheck")
  /\ UNCHANGED <<verificationCount, anomalyRows>>
  /\ ConcurrentFrame

\* checkForDuplicates of call c and, with no await in between, the rest of
\* performVerificationChecks
CallCheckForDuplicates(c) ==
  /\ concurrent[c].pc = "duplicateCheck"
  /\ \E result \in {DuplicateResult(certificate), DuplicateError} :
       concurrent' = [concurrent EXCEPT
                        ![c].checks["duplicateCheck"] = result,
                        ![c].verificationResult =
                           Some(VerificationResult(
                                  [concurrent[c].checks EXCEPT !["duplicateCheck"] = result])),
                        ![c].pc = "update"]
  /\ UNCHANGED <<verificationCount, anomalyRows>>
  /\ ConcurrentFrame

\* prisma.verification.update of call c, on the row the call created
CallUpdateVerification(c) ==
  /\ concurrent[c].pc = "update"
  /\ LET result == concurrent[c].verificationResult[1]
     IN \/ concurrent' = [concurrent EXCEPT
                            ![c].verificationRow =
                               Some([status |-> IF result.isValid THEN "COMPLETED"
                                                ELSE "FAILED",
                                     isValid |-> Some(result.isValid),
                                     confidenceScore |-> Some(result.confidenceScore),
                                     flaggedReasons |-> result.flaggedReasons]),
                            ![c].pc = "increment"]
        \/ concurrent' = [concurrent EXCEPT ![c].pc = "thrown"]
  /\ UNCHANGED <<verificationCount, anomalyRows>>
  /\ ConcurrentFrame

\* Mutant of CallUpdateCertificate: data: {verificationCount:
\* certificateData.verificationCount + 1}, the count of the row as the route
\* read it before the calls began
CallUpdateCertificateStale(c) ==
  /\ concurrent[c].pc = "increment"
  /\ \/ /\ verificationCount' = 1
        /\ concurrent' = [concurrent EXCEPT ![c].increments = @ + 1,
                                            ![c].pc = "returned"]
     \/ /\ concurrent' = [concurrent EXCEPT ![c].pc = "thrown"]
        /\ UNCHANGED verificationCount
  /\ UNCHANGED anomalyRows
  /\ ConcurrentFrame

\* prisma.certificate.update of call c, then return: {increment: 1} is one
\* UPDATE statement, which adds to the stored value or is rejected
CallUpdateCertificate(c) ==
  /\ concurrent[c].pc = "increment"
  /\ \/ /\ verificationCount' = verificationCount + 1
        /\ concurrent' = [concurrent EXCEPT ![c].increments = @ + 1,
                                            ![c].pc = "returned"]
     \/ /\ concurrent' = [concurrent EXCEPT ![c].pc = "thrown"]
        /\ UNCHANGED verificationCount
  /\ UNCHANGED anomalyRows
  /\ ConcurrentFrame

ConcurrentNext ==
  \E c \in Callers :
    \/ CallCreateVerification(c)
    \/ CallDatabaseMatch(c)
    \/ CallBlockchainValidation(c)
    \/ CallDetectAnomalies(c)
    \/ CallValidateInstitution(c)
    \/ CallCheckForDuplicates(c)
    \/ CallUpdateVerification(c)
    \/ CallUpdateCertificate(c)

ConcurrentSpec == ConcurrentInit /\ [][ConcurrentNext]_vars

\* ------------------------------------------------------------------------
\* Properties
\* ------------------------------------------------------------------------

AllChecksIn == verificationResult # None
Result == verificationResult[1]

\* Ten times the exact weighted mean of the five confidences, with the
\* weights 0.4, 0.2, 0.2, 0.1, 0.1 written out
WeightedSum10(c) ==
  4 * c.databaseMatch.confidence + 2 * c.blockchainValidation.confidence
    + 2 * c.anomalyDetection.confidence + c.institutionValidation.confidence
    + c.duplicateCheck.confidence

\* C1: the confidence score performVerificationChecks reports is the weighted
\* mean of the five check confidences (weights 0.4, 0.2, 0.2, 0.1, 0.1)
\* rounded to the nearest integer, halves upwards.
C1_WeightedConfidence ==
  AllChecksIn =>
    /\ Result.checks = checks
    /\ 10 * Result.confidenceScore - 5 <= WeightedSum10(checks)
    /\ WeightedSum10(checks) < 10 * Result.confidenceScore + 5

\* C1 witness: a result whose weighted mean is not an integer and is rounded
\* upwards, reported to the caller
C1_Witness ==
  /\ pc = "returned"
  /\ WeightedSum10(checks) % 10 > 5
  /\ returned[1].confidenceScore = WeightedSum10(checks) \div 10 + 1

\* C2: isValid is true exactly when the confidence score is at least 75.
C2_ValidIffThreshold ==
  AllChecksIn => (Result.isValid <=> Result.confidenceScore >= 75)

\* C2 witness: a result exactly on the threshold, which is valid
C2_Witness ==
  /\ AllChecksIn
  /\ Result.confidenceScore = 75
  /\ Result.isValid

\* C3: the five weights sum to 1.0 (10 tenths), every check confidence and
\* the overall confidence is an integer in [0,100], error paths included.
C3_ConfidenceInRange ==
  /\ Weight("databaseMatch") + Weight("blockchainValidation")
       + Weight("anomalyDetection") + Weight("institutionValidation")
       + Weight("duplicateCheck") = 10
  /\ \A i \in 1..Len(ran) : checks[ran[i]].confidence \in 0..100
  /\ AllChecksIn => Result.confidenceScore \in 0..100

\* C3 witness: a result computed with a failed collaborator and an anomaly
\* check whose deductions exceed 100
C3_Witness ==
  /\ AllChecksIn
  /\ failed # {}
  /\ AnomalyConfidence(certificate) < 0
  /\ Result.confidenceScore \in 0..100

\* Position of a check name in the check order
CheckIndex(checkName) == CHOOSE i \in 1..Len(CheckNames) : CheckNames[i] = checkName

\* C4: flaggedReasons holds, in check order, exactly one entry per check that
\* did not pass, carrying that check's name and message, and nothing else; it
\* is empty exactly when all five checks passed.
C4_FlaggedReasons ==
  AllChecksIn =>
    LET reasons == Result.flaggedReasons
    IN /\ \A i \in 1..Len(reasons) :
            /\ \E k \in 1..Len(CheckNames) : CheckNames[k] = reasons[i][1]
            /\ ~checks[reasons[i][1]].passed
            /\ reasons[i][2] = checks[reasons[i][1]].message
       /\ \A k \in 1..Len(CheckNames) :
            Cardinality({i \in 1..Len(reasons) : reasons[i][1] = CheckNames[k]})
              = IF checks[CheckNames[k]].passed THEN 0 ELSE 1
       /\ \A i, j \in 1..Len(reasons) :
            i < j => CheckIndex(reasons[i][1]) < CheckIndex(reasons[j][1])
       /\ (reasons = <<>>) <=> (\A k \in 1..Len(CheckNames) : checks[CheckNames[k]].passed)

\* C4 witness: a result in which some checks passed and others did not
C4_Witness ==
  /\ AllChecksIn
  /\ Len(Result.flaggedReasons) = 2
  /\ checks.databaseMatch.passed
  /\ ~checks.duplicateCheck.passed

LedgerCheckDone == \E i \in 1..Len(ran) : ran[i] = "blockchainValidation"

\* C5: a certificate that is not legacy and has no stored digest fails the
\* ledger check with confidence 0, and the ledger is not queried.
C5_MissingDigestFails ==
  (LedgerCheckDone /\ ~certificate.isLegacy /\ certificate.blockchainHash = None) =>
    /\ ~checks.blockchainValidation.passed
    /\ checks.blockchainValidation.confidence = 0
    /\ ledgerCalls = <<>>

\* C5 witness: such a certificate, otherwise clean, with the contract configured
C5_Witness ==
  /\ LedgerCheckDone
  /\ ~certificate.isLegacy
  /\ certificate.blockchainHash = None
  /\ contract
  /\ "anomalyDetection" \notin failed
  /\ pc = "aggregate"
  /\ checks.anomalyDetection.passed
  /\ checks.institutionValidation.passed

\* C6: a legacy certificate with no stored digest passes the ledger check with
\* confidence 60 and carries the digest of its own six fields; the ledger is
\* not queried.
C6_LegacyExemption ==
  (LedgerCheckDone /\ certificate.isLegacy /\ certificate.blockchainHash = None) =>
    /\ checks.blockchainValidation.passed
    /\ checks.blockchainValidation.confidence = 60
    /\ checks.blockchainValidation.details # None
    /\ checks.blockchainValidation.details[1].generatedHash =
         <<certificate.studentName, certificate.certificateNumber, certificate.course,
           certificate.passingYear, certificate.institutionId, certificate.dateOfIssue>>
    /\ ledgerCalls = <<>>

\* C6 witness: a legacy certificate without digest whose ledger check returned
C6_Witness ==
  /\ LedgerCheckDone
  /\ certificate.isLegacy
  /\ certificate.blockchainHash = None
  /\ checks.blockchainValidation.confidence = 60

\* C7 (as claimed): with a stored digest the ledger check passes, with
\* confidence 100, only if the ledger holds the digest and the digest is the
\* canonical digest of the certificate; otherwise it fails with confidence 0.
C7_PassOnlyIfDigestMatches ==
  (LedgerCheckDone /\ certificate.blockchainHash # None) =>
    LET digest == certificate.blockchainHash[1]
        confirmed == /\ contract
                     /\ "blockchainValidation" \notin failed
                     /\ digest \in LedgerHashes
                     /\ digest = generateCertificateHash(certificate)
    IN IF confirmed
       THEN checks.blockchainValidation.passed
              /\ checks.blockchainValidation.confidence = 100
       ELSE ~checks.blockchainValidation.passed
              /\ checks.blockchainValidation.confidence = 0

\* C8 (as claimed): a sub-check whose collaborator call raised an error
\* returns passed = false and confidence = 0.
C8_FailedCheckIsZero ==
  \A i \in 1..Len(ran) :
    ran[i] \in failed =>
      ~checks[ran[i]].passed /\ checks[ran[i]].confidence = 0

\* C9 (as claimed): a call of verifyCertificate never ends with an exception;
\* it ends by returning a result.
C9_AlwaysReturns ==
  /\ pc # "thrown"
  /\ pc = "returned" => returned # None

\* What a sub-check returns when none of its collaborators fails
Unfailed(checkName) ==
  CASE checkName = "databaseMatch" ->
         IF DatabaseMatchRows(certificate) = {} THEN {DatabaseMatchNotFound}
         ELSE {DatabaseMatchFound(certificate, row) : row \in DatabaseMatchRows(certificate)}
    [] checkName = "blockchainValidation" ->
         IF certificate.blockchainHash = None THEN {BlockchainWithoutHash(certificate)}
         ELSE {BlockchainWithResult(LedgerAnswer(certificate.blockchainHash[1]))}
    [] checkName = "anomalyDetection" -> {AnomalyResult(certificate)}
    [] checkName = "institutionValidation" -> {InstitutionResult(certificate)}
    [] checkName = "duplicateCheck" -> {DuplicateResult(certificate)}

\* C10: whatever sub-checks had a failing collaborator, the five sub-checks
\* all run, in order, and a sub-check without a failure returns what it
\* returns when nothing fails.
C10_FailureIsolation ==
  /\ Len(ran) <= Len(CheckNames)
  /\ \A i \in 1..Len(ran) : ran[i] = CheckNames[i]
  /\ pc \in {"aggregate", "update", "increment", "returned"} => ran = CheckNames
  /\ \A i \in 1..Len(ran) :
       ran[i] \notin failed => checks[ran[i]] \in Unfailed(ran[i])

\* C10 witness: the record lookup and the institution lookup failed, and the
\* other three checks ran and returned their usual results
C10_Witness ==
  /\ pc = "aggregate"
  /\ failed = {"databaseMatch", "institutionValidation"}
  /\ ran = CheckNames
  /\ checks.duplicateCheck.passed
  /\ checks.blockchainValidation.confidence = 100

\* C11: the overall confidence is computed only after all five sub-checks have
\* returned, and over the results of all five: while a sub-check is still to
\* run there is no result, and a result holds the five results the sub-checks
\* returned, one note per check, and the score of all five.
C11_AggregateAfterAllFive ==
  /\ Len(ran) < Len(CheckNames) => verificationResult = None
  /\ AllChecksIn =>
       /\ ran = CheckNames
       /\ DOMAIN Result.checks = {CheckNames[i] : i \in 1..Len(CheckNames)}
       /\ \A i \in 1..Len(CheckNames) :
            /\ Result.checks[CheckNames[i]] = checks[CheckNames[i]]
            /\ Result.notes[i][1] = CheckNames[i]
       /\ Len(Result.notes) = Len(CheckNames)
       /\ 10 * Result.confidenceScore - 5 <= WeightedSum10(Result.checks)
       /\ WeightedSum10(Result.checks) < 10 * Result.confidenceScore + 5

\* C11 witness: a result whose last sub-check ended in its error branch, and
\* whose score counts that check's confidence
C11_Witness ==
  /\ AllChecksIn
  /\ "duplicateCheck" \in failed
  /\ Result.checks.duplicateCheck = DuplicateError
  /\ Result.checks.databaseMatch.passed
  /\ Result.confidenceScore > 0

\* C12 (as claimed): once the verification row has been updated, it is
\* COMPLETED whenever no sub-check met an error, whatever the confidence, and
\* it is FAILED only if a sub-check met an error, and then isValid is false.
C12_CompletedUnlessError ==
  pc \in {"increment", "returned"} =>
    /\ failed = {} => verificationRow[1].status = "COMPLETED"
    /\ verificationRow[1].status = "FAILED" =>
         failed # {} /\ verificationRow[1].isValid = Some(FALSE)

\* The weights of the fields that are present in both records
PresentWeights(cert1, cert2) ==
  (IF TruthyStr(cert1.studentName) /\ TruthyStr(cert2.studentName) THEN 25 ELSE 0)
    + (IF TruthyStr(cert1.certificateNumber) /\ TruthyStr(cert2.certificateNumber)
       THEN 20 ELSE 0)
    + (IF TruthyStr(cert1.course) /\ TruthyStr(cert2.course) THEN 15 ELSE 0)
    + (IF TruthyNum(cert1.passingYear) /\ TruthyNum(cert2.passingYear) THEN 10 ELSE 0)
    + (IF TruthyStr(cert1.rollNumber) /\ TruthyStr(cert2.rollNumber) THEN 10 ELSE 0)
    + (IF TruthyStr(cert1.grade) /\ TruthyStr(cert2.grade) THEN 5 ELSE 0)
    + (IF TruthyNum(cert1.cgpa) /\ TruthyNum(cert2.cgpa) THEN 5 ELSE 0)
    + (IF TruthyNum(cert1.percentage) /\ TruthyNum(cert2.percentage) THEN 5 ELSE 0)
    + 5

CompareReturned == call.op = "compareDetails" /\ call.result # None

\* C13 (as claimed): compareDetails returns 100 times the weighted field
\* score divided by the weights of the fields present in both records,
\* rounded; two records that agree on every field they both carry score 100.
C13_ScoreOverPresentFields ==
  CompareReturned =>
    LET cert1 == call.args[1]
        cert2 == call.args[2]
        score == DetailsScore(cert1, cert2)
        present == PresentWeights(cert1, cert2)
    IN /\ 2 * score[2] * present * call.result[1] - score[2] * present
            <= 200 * score[1]
       /\ 200 * score[1]
            < 2 * score[2] * present * call.result[1] + score[2] * present
       /\ score[1] = present * score[2] => call.result[1] = 100

\* The stored rows that carry the candidate's certificate number
RowsByNumber ==
  {row \in StoredCertificates : row.certificateNumber = certificate.certificateNumber}

\* C14 (as claimed): when a stored row has exactly the candidate's certificate
\* number, the record lookup scores the candidate against such a row; a row
\* found through student name, roll number and institution is used only when
\* no row has the candidate's certificate number.
C14_NumberMatchFirst ==
  (Len(ran) >= 1 /\ "databaseMatch" \notin failed /\ RowsByNumber # {}) =>
    checks.databaseMatch.details \in {Some(row.id) : row \in RowsByNumber}

\* The reference Levenshtein distance: the least number of insertions,
\* deletions and substitutions of one character that turn a into b
RECURSIVE editDistance(_, _)
editDistance(a, b) ==
  IF Len(a) = 0 THEN Len(b)
  ELSE IF Len(b) = 0 THEN Len(a)
  ELSE Min2(Min2(editDistance(Tail(a), b) + 1, editDistance(a, Tail(b)) + 1),
            editDistance(Tail(a), Tail(b)) + (IF Head(a) = Head(b) THEN 0 ELSE 1))

SimilarityReturned == call.op = "calculateStringSimilarity" /\ call.result # None

\* C15: for all strings a and b of at most MaxLen characters over Alphabet,
\* calculateStringSimilarity(a, b) is 1 - editDistance(a, b) / max(len a, len b)
\* with the reference Levenshtein distance, and 1 when both strings are empty.
C15_NormalizedLevenshtein ==
  SimilarityReturned =>
    LET a == call.args[1]
        b == call.args[2]
        longest == IF Len(a) >= Len(b) THEN Len(a) ELSE Len(b)
        similarity == call.result[1]
    IN /\ similarity[2] > 0
       /\ IF longest = 0
          THEN similarity[1] = similarity[2]
          ELSE similarity[1] * longest = (longest - editDistance(a, b)) * similarity[2]

\* C15 witness: two strings of different lengths, two edits apart, whose
\* similarity came out as one third
C15_Witness ==
  /\ SimilarityReturned
  /\ Len(call.args[1]) = 2
  /\ Len(call.args[2]) = 3
  /\ editDistance(call.args[1], call.args[2]) = 2
  /\ 3 * call.result[1][1] = call.result[1][2]

\* C16: for all strings a and b of at most MaxLen characters over Alphabet,
\* the similarity lies between 0 and 1, a string has similarity 1 with
\* itself, and the similarity of a and b is that of b and a.
C16_SimilarityBoundsSymmetry ==
  SimilarityReturned =>
    LET a == call.args[1]
        b == call.args[2]
        similarity == call.result[1]
        swapped == calculateStringSimilarity(b, a)
    IN /\ similarity[2] > 0
       /\ 0 <= similarity[1]
       /\ similarity[1] <= similarity[2]
       /\ a = b => similarity[1] = similarity[2]
       /\ similarity[1] * swapped[2] = swapped[1] * similarity[2]

\* C16 witness: a shorter and a longer string that differ, with a similarity
\* strictly between 0 and 1
C16_Witness ==
  /\ SimilarityReturned
  /\ Len(call.args[1]) < Len(call.args[2])
  /\ 0 < call.result[1][1]
  /\ call.result[1][1] < call.result[1][2]

AnomalyCheckDone == \E i \in 1..Len(ran) : ran[i] = "anomalyDetection"

\* The deductions of a list of findings, added up
RECURSIVE SumOfDeductions(_)
SumOfDeductions(findings) ==
  IF Len(findings) = 0 THEN 0
  ELSE DeductionOf(Head(findings).type) + SumOfDeductions(Tail(findings))

\* C17: the anomalyDetection result has confidence max(0, 100 - the sum of
\* the deductions of the findings it lists), which lies in [0,100], and it
\* passed exactly when it lists no finding.
C17_AnomalyConfidence ==
  AnomalyCheckDone =>
    LET result == checks.anomalyDetection
        left == 100 - SumOfDeductions(result.details)
    IN /\ result.confidence = (IF left > 0 THEN left ELSE 0)
       /\ result.confidence \in 0..100
       /\ result.passed <=> result.details = <<>>
       /\ result.message[2] = Len(result.details)

\* C17 witness: a result whose findings take off more than 100, so that the
\* confidence is cut off at 0
C17_Witness ==
  /\ AnomalyCheckDone
  /\ SumOfDeductions(checks.anomalyDetection.details) > 100
  /\ checks.anomalyDetection.confidence = 0
  /\ ~checks.anomalyDetection.passed

SeverityRank(severity) ==
  CASE severity = "LOW" -> 1
    [] severity = "MEDIUM" -> 2
    [] severity = "HIGH" -> 3
    [] severity = "CRITICAL" -> 4

\* C18 (as claimed): what a finding deducts follows its type and its
\* severity: findings of one type deduct the same, a finding of higher
\* severity never deducts less than one of lower severity, and the amounts
\* are 20 to 30 for HIGH and CRITICAL, 15 for MEDIUM, 5 for LOW.
C18_DeductionBySeverity ==
  AnomalyCheckDone =>
    LET findings == checks.anomalyDetection.details
    IN /\ \A i, j \in 1..Len(findings) :
            /\ findings[i].type = findings[j].type =>
                 DeductionOf(findings[i].type) = DeductionOf(findings[j].type)
            /\ SeverityRank(findings[i].severity) > SeverityRank(findings[j].severity) =>
                 DeductionOf(findings[i].type) >= DeductionOf(findings[j].type)
       /\ \A i \in 1..Len(findings) :
            CASE findings[i].severity \in {"HIGH", "CRITICAL"} ->
                   DeductionOf(findings[i].type) \in 20..30
              [] findings[i].severity = "MEDIUM" -> DeductionOf(findings[i].type) = 15
              [] findings[i].severity = "LOW" -> DeductionOf(findings[i].type) = 5

\* C20 (as claimed): verifying a certificate whose CGPA is 12.0 yields an
\* anomalyDetection check that lists a finding of type IMPOSSIBLE_GRADE with
\* severity CRITICAL, has confidence at most 70, and appears in
\* flaggedReasons.
C20_ImpossibleGradeScenario ==
  (AllChecksIn /\ certificate.cgpa = Some(120)) =>
    LET findings == Result.checks.anomalyDetection.details
        reasons == Result.flaggedReasons
    IN /\ \E i \in 1..Len(findings) :
            findings[i].type = "IMPOSSIBLE_GRADE" /\ findings[i].severity = "CRITICAL"
       /\ Result.checks.anomalyDetection.confidence <= 70
       /\ \E i \in 1..Len(reasons) : reasons[i][1] = "anomalyDetection"

CleanRun ==
  /\ certificate = Row4
  /\ contract
  /\ failed = {}
  /\ AllChecksIn

C21_CleanCandidateVerifies ==
  CleanRun =>
    /\ Result.isValid
    /\ Result.confidenceScore >= 90
    /\ \A i \in 1..Len(Result.checks.anomalyDetection.details) :
         Result.checks.anomalyDetection.details[i].severity \notin {"CRITICAL", "HIGH"}

\* The call on that record has returned its result: every check passed
C21_Witness ==
  /\ CleanRun
  /\ pc = "returned"
  /\ returned = Some(Result)
  /\ \A i \in 1..Len(CheckNames) : Result.checks[CheckNames[i]].passed
  /\ DuplicateRows(certificate) = {}
  /\ DatabaseMatchRows(certificate) = {Row4}

DuplicateCheckDone == \E i \in 1..Len(ran) : ran[i] = "duplicateCheck"

\* C22 (as claimed): once checkForDuplicates has returned, it has passed
\* exactly when no stored row other than the certificate's own shares its
\* certificate number or its student name, roll number, course and passing
\* year; a pass has confidence 100 and comes from an answered query, and a
\* certificate with such a row fails with confidence 0.
C22_PassIffNoDuplicates ==
  DuplicateCheckDone =>
    /\ checks.duplicateCheck.passed <=> DuplicateRows(certificate) = {}
    /\ checks.duplicateCheck.passed =>
         (checks.duplicateCheck.confidence = 100 /\ "duplicateCheck" \notin failed)
    /\ DuplicateRows(certificate) # {} =>
         (~checks.duplicateCheck.passed /\ checks.duplicateCheck.confidence = 0)

\* The finding as it was pushed, without the fields prioritizeAnomalies adds
Pushed(anomaly) ==
  RiskFinding(anomaly.type, anomaly.severity, anomaly.confidence, anomaly.riskScore)

Occurrences(findings, finding) ==
  Cardinality({i \in 1..Len(findings) : findings[i] = finding})

\* C23: the list detectAllAnomalies returns is a permutation of the findings
\* that were pushed (each finding occurs as often in the one as in the
\* other), its riskScore never increases along the list, and the finding at
\* place i has priority i, so that priority 1 is on a finding of maximal
\* riskScore.
C23_PrioritizedPermutation ==
  detection.pc = "returned" =>
    LET anomalies == detection.anomalies
        prioritized == detection.returned
        pushed == [k \in 1..Len(prioritized) |-> Pushed(prioritized[k])]
    IN /\ Len(prioritized) = Len(anomalies)
       /\ \A i \in 1..Len(anomalies) :
            Occurrences(pushed, anomalies[i]) = Occurrences(anomalies, anomalies[i])
       /\ \A k \in 1..Len(prioritized) : prioritized[k].priority = k
       /\ \A k \in 1..(Len(prioritized) - 1) :
            prioritized[k].riskScore >= prioritized[k + 1].riskScore
       /\ \A k \in 1..Len(prioritized) :
            prioritized[1].riskScore >= anomalies[k].riskScore

\* Four or more findings pushed out of order, two of them with one riskScore
C23_Witness ==
  /\ detection.pc = "returned"
  /\ Len(detection.anomalies) >= 4
  /\ \E i, j \in 1..Len(detection.anomalies) :
       i < j /\ detection.anomalies[i].riskScore < detection.anomalies[j].riskScore
  /\ \E i, j \in 1..Len(detection.anomalies) :
       /\ i # j
       /\ detection.anomalies[i].riskScore = detection.anomalies[j].riskScore
       /\ detection.anomalies[i].type # detection.anomalies[j].type
  /\ detection.returned[1].priority = 1

StatisticsDone == detection.pc \in {"crossReference", "prioritize", "returned"}

HasFinding(findings, type) == \E i \in 1..Len(findings) : findings[i].type = type

\* C24 (as claimed): once the statistical check has run with an answered
\* aggregate query, on a certificate with a cgpa and an institution with a
\* mean cgpa, the finding STATISTICAL_OUTLIER_CGPA (MEDIUM) has been pushed
\* exactly when the sample holds at least 10 records and the cgpa is more
\* than 2.0 away from the mean.
C24_OutlierFromTenRecords ==
  (/\ StatisticsDone
   /\ "aggregate" \notin detection.failed
   /\ detection.certificate.cgpa # None
   /\ detection.institutionStats.avgCgpa # None) =>
    (HasFinding(detection.anomalies, "STATISTICAL_OUTLIER_CGPA")
       <=> /\ detection.institutionStats.count >= 10
           /\ Abs(detection.certificate.cgpa[1] - detection.institutionStats.avgCgpa[1]) > 20)

\* C25 (as claimed): a certificate whose passing year is in the future gets a
\* CRITICAL finding FUTURE_PASSING_YEAR in the list detectAllAnomalies
\* returns, whatever the other checks found and whichever query failed, the
\* aggregate query included.
C25_FuturePassingYearAlways ==
  (/\ detection.pc = "returned"
   /\ detection.certificate.passingYear # None
   /\ detection.certificate.passingYear[1] > currentYear) =>
    \E i \in 1..Len(detection.returned) :
      /\ detection.returned[i].type = "FUTURE_PASSING_YEAR"
      /\ detection.returned[i].severity = "CRITICAL"

\* The certificateData has neither a certificate number nor a student name
NoIdentity ==
  ~TruthyStr(certificate.certificateNumber) /\ ~TruthyStr(certificate.studentName)

\* C26 (as claimed): for a certificateData with neither a certificate number
\* nor a student name, verifyCertificate runs none of the five checks, and
\* what it returns is not valid and carries exactly one flagged reason, the
\* verification row being FAILED.
C26_RefusesWithoutIdentity ==
  NoIdentity =>
    /\ ran = <<>>
    /\ returned # None =>
         /\ ~returned[1].isValid
         /\ Len(returned[1].flaggedReasons) = 1
         /\ verificationRow # None /\ verificationRow[1].status = "FAILED"

\* C27 (as claimed): the anomaly check of a verification writes nothing: no
\* step of verifyCertificate changes the rows of the anomalies table.
C27_AnomalyCheckWritesNothing == [][anomalyRows' = anomalyRows]_vars

\* C29 (as claimed): once verifyCertificate has ended, by returning or by
\* throwing, the verification row it created has status COMPLETED or FAILED,
\* COMPLETED exactly when the stored isValid is true; it is not PENDING.
C29_RecordLeavesPending ==
  (pc \in {"returned", "thrown"} /\ verificationRow # None) =>
    /\ verificationRow[1].status \in {"COMPLETED", "FAILED"}
    /\ verificationRow[1].status = "COMPLETED" <=> verificationRow[1].isValid = Some(TRUE)

UploadsDone == \A u \in Uploaders : bulk.uploads[u].pc = "done"

\* The rows of the table that an upload inserted
InsertedBy(u) ==
  {k \in 1..Len(bulk.store) : \E i \in 1..Len(bulk.uploads[u].records) :
                                 bulk.store[k].id = BulkId(u, i)}

\* C28: under every interleaving of the two uploads no two rows of the table
\* have one certificate number; a record whose number was in the table when
\* it was checked or created is not inserted, and once the uploads are over
\* every record is counted once, as successful when its row was inserted and
\* as failed otherwise.
C28_UniqueCertificateNumbers ==
  /\ \A j, k \in 1..Len(bulk.store) :
       bulk.store[j].certificateNumber = bulk.store[k].certificateNumber => j = k
  /\ \A u \in Uploaders : \A n \in 1..Len(bulk.uploads[u].outcomes) :
       bulk.uploads[u].outcomes[n].stored => bulk.uploads[u].outcomes[n].kind # "inserted"
  /\ UploadsDone =>
       \A u \in Uploaders :
         /\ bulk.uploads[u].successfulUploads = Cardinality(InsertedBy(u))
         /\ bulk.uploads[u].successfulUploads + bulk.uploads[u].failedUploads
              = Len(bulk.uploads[u].records)

\* Both uploads carried the certificate number RU5 and passed the check for
\* an existing certificate before either created its row: one row was
\* inserted, the other create was rejected and its record counted as failed
C28_Witness ==
  /\ UploadsDone
  /\ \E u, v \in Uploaders :
       /\ u # v
       /\ \E n \in 1..Len(bulk.uploads[u].outcomes) :
            bulk.uploads[u].outcomes[n] = [kind |-> "error", stored |-> TRUE]
       /\ \E k \in InsertedBy(v) : bulk.store[k].certificateNumber = <<"R", "U", "5">>
       /\ bulk.uploads[u].failedUploads >= 1
  /\ \E u \in Uploaders :
       \E n \in 1..Len(bulk.uploads[u].outcomes) :
         bulk.uploads[u].outcomes[n] = [kind |-> "duplicate", stored |-> TRUE]

\* The calls that have returned a result
ReturnedCalls == {c \in Callers : concurrent[c].pc = "returned"}

\* C30: at every point of every interleaving of the calls on one certificate,
\* verificationCount is the number of calls that have returned a result: a
\* call that has returned has incremented it exactly once, and a call that has
\* not returned, whether still running or thrown, has not changed it.
C30_CountIsReturnedCalls ==
  /\ verificationCount = Cardinality(ReturnedCalls)
  /\ \A c \in Callers :
       concurrent[c].increments = IF c \in ReturnedCalls THEN 1 ELSE 0

\* Both calls have ended: each returned a result, each has updated its own
\* verification row, and the count is two
C30_Witness ==
  /\ ReturnedCalls = Callers
  /\ verificationCount = 2
  /\ \A c \in Callers : concurrent[c].verificationRow[1].status \in {"COMPLETED", "FAILED"}

=============================================================================
